---------------------------- MODULE Spec2Model ----------------------------
(***************************************************************************)
(* Retrieval-augmented answering pipeline of onlyai-telegram-agent:        *)
(* token-aware chunking, hybrid search with score fusion, the digest       *)
(* pipeline with message cleanup, provider retries, chunk embedding and    *)
(* document upload versioning.                                             *)
(*                                                                         *)
(* Each subsystem has its own variables and its own specification; a       *)
(* specification leaves the variables of the other subsystems at their     *)
(* idle values.                                                            *)
(*                                                                         *)
(* Units.  Token counts are integers.  Scores are in tenths (bm25_score    *)
(* 0.8 is 8) and combined scores in hundredths (0.38 is 38), so that the   *)
(* weights 0.3 and 0.7 are the integers 3 and 7.  Time is in days.         *)
(***************************************************************************)
EXTENDS Integers, Sequences, FiniteSets, TLC

VARIABLES
    ckInput,     \* chunk_text: the sentence candidates of the input text
    ckPc,        \* chunk_text: "input" before the call, "returned" after
    ckChunks,    \* chunk_text: the returned list of chunks
    ckLoop,      \* chunk_text: the chunks and the buffer its loop ended with
    hsChunks,    \* hybrid_search: doc_chunks rows, scored against the query
    hsDigests,   \* hybrid_search: chat_digests rows, scored against the query
    hsPc,        \* hybrid_search: "input" before the call, "returned" after
    hsCall,      \* hybrid_search: top_k and the three query results of the call
    hsOut,       \* hybrid_search: the returned list
    dgNow,       \* digest pipeline: the current day
    dgMessages,  \* digest pipeline: the rows of table messages
    dgNextId,    \* digest pipeline: the id the next stored message gets
    dgDigests,   \* digest pipeline: the rows of table chat_digests, in insertion order
    dgOp,        \* digest pipeline: the last operation, with what it returned
    rtKind,      \* provider call: chat_completion, embed_text or embed_batch
    rtPc,        \* provider call: idle, attempt, sleep, returned or raised
    rtAttempt,   \* provider call: the loop variable attempt of _retry_with_backoff
    rtLog,       \* provider call: the attempts and sleeps of the call so far
    rtResult,    \* provider call: the value returned or the exception raised
    emChunks,    \* embed_chunks: the argument chunks
    emDocId,     \* embed_chunks: the argument doc_id
    emOrdered,   \* embed_chunks: whether the provider keeps the order of a batch
    emStore,     \* embed_chunks: the rows of table doc_chunks, in insertion order
    emOp,        \* embed_chunks: the last call, with its requests and result
    upDocs,      \* uploads: the rows of table docs
    upChunkRows, \* uploads: the rows of table doc_chunks, as [doc_id, upload, index]
    upNextId,    \* uploads: the id the next inserted docs row gets
    upStarted,   \* uploads: the number of uploads started so far
    upProc,      \* uploads: per request handler, its upload in progress
    fbSeed,      \* fallback: per process, its hash seed
    fbLog,       \* fallback: the calls of get_fallback_response made so far
    scStarted,   \* scheduler: whether start_scheduler has run
    scRunning,   \* scheduler: per job id, its scheduled executions in progress
    scManual,    \* scheduler: per admin endpoint, its requests in progress
    scFires,     \* scheduler: the trigger times that have passed
    scSkipped,   \* scheduler: the runs the scheduler skipped
    scRequests,  \* scheduler: the admin requests received so far
    qaLogs,      \* answers: the rows of table qa_logs
    qaOp,        \* answers: the last call, with its requests and result
    btMessages,  \* message handler: the rows of table messages, in insertion order
    btHandled,   \* message handler: the number of messages handled so far
    btOp         \* message handler: the last message, with what was done for it

chunkerVars == <<ckInput, ckPc, ckChunks, ckLoop>>
searchVars  == <<hsChunks, hsDigests, hsPc, hsCall, hsOut>>
digestVars  == <<dgNow, dgMessages, dgNextId, dgDigests, dgOp>>
retryVars   == <<rtKind, rtPc, rtAttempt, rtLog, rtResult>>
embedVars   == <<emChunks, emDocId, emOrdered, emStore, emOp>>
uploadVars  == <<upDocs, upChunkRows, upNextId, upStarted, upProc>>
fallbackVars == <<fbSeed, fbLog>>
qaVars == <<qaLogs, qaOp>>
botVars == <<btMessages, btHandled, btOp>>
schedulerVars == <<scStarted, scRunning, scManual, scFires, scSkipped, scRequests>>

\* Absent score (SQL NULL, Python None): an integer no score takes.
NULL == -1000

Min(a, b) == IF a <= b THEN a ELSE b
Max(a, b) == IF a >= b THEN a ELSE b

RECURSIVE SumSeq(_)
SumSeq(s) == IF s = <<>> THEN 0 ELSE Head(s) + SumSeq(Tail(s))

\* Sequences over S of length at most n.
SeqUpTo(S, n) == UNION {[1..k -> S] : k \in 0..n}

(***************************************************************************)
(* CHUNKER  (src/app/retrieval/chunker.py)                                 *)
(*                                                                         *)
(* A text is a sequence of sentence candidates, as re.split leaves them.   *)
(* A candidate is [len: its length in characters, words: its words], and a *)
(* word is represented by the number of tokens the counter gives it.  The  *)
(* token counter is additive over words.                                   *)
(***************************************************************************)
min_tokens == 300
max_tokens == 800
overlap_percent_num == 15
overlap_percent_den == 100

\* Longest input text, in sentence candidates.
MaxSentences == 3

\* The sentence candidates the inputs are built from.
Candidates ==
    { [len |-> 9,    words |-> <<60>>],
      [len |-> 10,   words |-> <<60>>],
      [len |-> 50,   words |-> <<13>>],
      [len |-> 50,   words |-> <<14>>],
      [len |-> 300,  words |-> <<60>>],
      [len |-> 600,  words |-> <<60, 60>>],
      [len |-> 2000, words |-> <<450>>],
      [len |-> 2300, words |-> <<450, 60>>],
      [len |-> 4000, words |-> <<450, 450>>] }

\* llm_client.count_tokens on a text given as its words.
count_tokens(words) == SumSeq(words)

\* _split_into_sentences: keeps the candidates longer than 10 characters.
split_into_sentences(cands) ==
    SelectSeq(cands, LAMBDA c : c.len > 10)

\* The loop of _get_overlap_text: walks the words from the last one backwards
\* and stops at the first word that does not fit in the budget.
RECURSIVE overlap_walk(_, _, _, _, _)
overlap_walk(words, i, overlap_tokens, overlap_words, current_tokens) ==
    IF i = 0 THEN overlap_words
    ELSE IF current_tokens + words[i] <= overlap_tokens
         THEN overlap_walk(words, i - 1, overlap_tokens,
                           <<words[i]>> \o overlap_words,
                           current_tokens + words[i])
         ELSE overlap_words

\* get_overlap_text with a budget of half the tokens of the chunk.
get_overlap_text_half(words) ==
    IF words = <<>> THEN <<>>
    ELSE overlap_walk(words, Len(words), count_tokens(words) \div 2, <<>>, 0)

\* _get_overlap_text: overlap_tokens = int(total_tokens * overlap_percent).
get_overlap_text(words) ==
    IF words = <<>> THEN <<>>
    ELSE LET total_tokens   == count_tokens(words)
             overlap_tokens == (total_tokens * overlap_percent_num)
                                   \div overlap_percent_den
         IN  overlap_walk(words, Len(words), overlap_tokens, <<>>, 0)

\* A chunk as chunk_text records it.
chunk_data(words, tokens) == [text |-> words, tokens |-> tokens]

\* The test that closes the current chunk before a sentence is added.
closes_chunk(current_chunk, current_tokens, sentence_tokens) ==
    current_tokens + sentence_tokens > max_tokens /\ current_chunk # <<>>

\* emits_final never emitting the buffer.
emits_final_never(current_chunk, current_tokens) == FALSE

\* emits_final without the minimum.
emits_final_always(current_chunk, current_tokens) == current_chunk # <<>>

\* The test that emits the buffer left after the last sentence.
emits_final(current_chunk, current_tokens) ==
    current_chunk # <<>> /\ current_tokens >= min_tokens

\* The state chunk_text has built so far.
loop_state(chunks, current_chunk, current_tokens) ==
    [chunks |-> chunks, current_chunk |-> current_chunk,
     current_tokens |-> current_tokens]

\* The for loop of chunk_text: the state it ends in.
RECURSIVE chunk_loop(_, _, _, _, _)
chunk_loop(sentences, i, chunks, current_chunk, current_tokens) ==
    IF i > Len(sentences)
    THEN loop_state(chunks, current_chunk, current_tokens)
    ELSE LET sentence        == sentences[i].words
             sentence_tokens == count_tokens(sentence)
         IN  IF closes_chunk(current_chunk, current_tokens, sentence_tokens)
             THEN LET next_chunk == get_overlap_text(current_chunk) \o sentence
                  IN  chunk_loop(sentences, i + 1,
                                 Append(chunks,
                                        chunk_data(current_chunk, current_tokens)),
                                 next_chunk, count_tokens(next_chunk))
             ELSE chunk_loop(sentences, i + 1, chunks,
                             current_chunk \o sentence,
                             current_tokens + sentence_tokens)

\* The state the loop of chunk_text ends in on a text ("if not text" returns
\* before the loop).
loop_end(cands) ==
    IF cands = <<>> THEN loop_state(<<>>, <<>>, 0)
    ELSE chunk_loop(split_into_sentences(cands), 1, <<>>, <<>>, 0)

\* The final-chunk test and the return of chunk_text.
add_final_chunk(end) ==
    IF emits_final(end.current_chunk, end.current_tokens)
    THEN Append(end.chunks, chunk_data(end.current_chunk, end.current_tokens))
    ELSE end.chunks

\* TextChunker.chunk_text.
chunk_text(cands) == add_final_chunk(loop_end(cands))

ChunkerInit ==
    /\ ckInput \in SeqUpTo(Candidates, MaxSentences)
    /\ ckPc = "input"
    /\ ckChunks = <<>>
    /\ ckLoop = loop_state(<<>>, <<>>, 0)

ChunkerIdle ==
    /\ ckInput = <<>>
    /\ ckPc = "idle"
    /\ ckChunks = <<>>
    /\ ckLoop = loop_state(<<>>, <<>>, 0)

\* One call of chunk_text on the input text.
ChunkText ==
    /\ ckPc = "input"
    /\ ckChunks' = chunk_text(ckInput)
    /\ ckLoop' = loop_end(ckInput)
    /\ ckPc' = "returned"
    /\ UNCHANGED ckInput

(***************************************************************************)
(* HYBRID SEARCH  (src/app/db/repo.py, hybrid_search)                      *)
(*                                                                         *)
(* A doc_chunks row is [id, bm25, vec]: bm25 is its ts_rank against the    *)
(* query (NULL when the row does not match the query), vec is              *)
(* 1 - cosine distance to the query embedding.  A chat_digests row is      *)
(* [id, vec].                                                              *)
(***************************************************************************)
\* Largest top_k a call is made with.
MaxTopK == 4

Bm25Scores == {NULL, 7}
VecScores  == {1, 3, 9}

\* A result row of one of the three queries.
result_row(id, type, bm25, vec) ==
    [id |-> id, type |-> type, bm25_score |-> bm25, vector_score |-> vec]

\* What "SELECT ... ORDER BY key DESC LIMIT k" may return on the rows: the k
\* best rows (all of them when there are fewer), best first, rows of equal
\* key in any order.
order_by_desc_limit(rows, column, k) ==
    LET n == Min(k, Cardinality(rows))
        key(r) == IF column = "bm25_score" THEN r.bm25_score
                  ELSE r.vector_score
    IN  { q \in [1..n -> rows] :
            /\ \A i, j \in 1..n : i # j => q[i] # q[j]
            /\ \A i, j \in 1..n : i < j => key(q[i]) >= key(q[j])
            /\ \A r \in rows :
                 (\A i \in 1..n : q[i] # r) =>
                     \A i \in 1..n : key(r) <= key(q[i]) }

\* The BM25 query: the rows matching the query, by bm25_score.
bm25_query(top_k) ==
    order_by_desc_limit(
        { result_row(c.id, "doc_chunk", c.bm25, NULL) :
              c \in {x \in hsChunks : x.bm25 # NULL} },
        "bm25_score", top_k)

\* The vector query on doc_chunks.
vector_query(top_k) ==
    order_by_desc_limit(
        { result_row(c.id, "doc_chunk", NULL, c.vec) : c \in hsChunks },
        "vector_score", top_k)

\* The vector query on chat_digests, limited to top_k // 2.
digest_query(top_k) ==
    order_by_desc_limit(
        { result_row(d.id, "digest", NULL, d.vec) : d \in hsDigests },
        "vector_score", top_k \div 2)

\* "x or 0" on a score.
or_zero(x) == IF x = NULL THEN 0 ELSE x

\* combined_score with the two weights exchanged.
combined_score_swapped(bm25_score, vector_score) ==
    (or_zero(bm25_score) * 7) + (or_zero(vector_score) * 3)

\* combined_score = (bm25_score * 0.3) + (vector_score * 0.7), in hundredths.
combined_score(bm25_score, vector_score) ==
    (or_zero(bm25_score) * 3) + (or_zero(vector_score) * 7)

with_combined(r) ==
    [id |-> r.id, type |-> r.type, bm25_score |-> r.bm25_score,
     vector_score |-> r.vector_score,
     combined_score |-> combined_score(r.bm25_score, r.vector_score)]

\* insert_desc without stability: x goes before the elements of equal key.
RECURSIVE insert_desc_unstable(_, _)
insert_desc_unstable(sorted, x) ==
    IF sorted = <<>> THEN <<x>>
    ELSE IF Head(sorted).combined_score > x.combined_score
         THEN <<Head(sorted)>> \o insert_desc_unstable(Tail(sorted), x)
         ELSE <<x>> \o sorted

\* Inserts x into a list sorted by descending key, after the elements whose
\* key is greater than or equal to its own.
RECURSIVE insert_desc(_, _)
insert_desc(sorted, x) ==
    IF sorted = <<>> THEN <<x>>
    ELSE IF Head(sorted).combined_score >= x.combined_score
         THEN <<Head(sorted)>> \o insert_desc(Tail(sorted), x)
         ELSE <<x>> \o sorted

\* list.sort(key=combined_score, reverse=True): a stable sort, so elements of
\* equal key keep the order they had in the list.
RECURSIVE sort_desc_from(_, _, _)
sort_desc_from(list, i, sorted) ==
    IF i > Len(list) THEN sorted
    ELSE sort_desc_from(list, i + 1, insert_desc(sorted, list[i]))

sort_desc(list) == sort_desc_from(list, 1, <<>>)

\* all_results[:top_k]
truncate(list, top_k) == SubSeq(list, 1, Min(top_k, Len(list)))

\* combine_and_rerank cutting the list to top_k before it is sorted.
combine_and_rerank_cut_first(bm25_results, vector_results, digest_results, top_k) ==
    LET all_results == bm25_results \o vector_results \o digest_results
        scored      == [i \in 1..Len(all_results) |-> with_combined(all_results[i])]
    IN  sort_desc(truncate(scored, top_k))

\* The part of hybrid_search after the three queries.
combine_and_rerank(bm25_results, vector_results, digest_results, top_k) ==
    LET all_results == bm25_results \o vector_results \o digest_results
        scored      == [i \in 1..Len(all_results) |-> with_combined(all_results[i])]
    IN  truncate(sort_desc(scored), top_k)

NoCall == [top_k |-> 0, bm25_results |-> <<>>, vector_results |-> <<>>,
           digest_results |-> <<>>]

SearchInit ==
    /\ hsChunks \in { {[id |-> "c1", bm25 |-> b1, vec |-> v1],
                       [id |-> "c2", bm25 |-> b2, vec |-> v2]} :
                         <<b1, v1, b2, v2>> \in
                            Bm25Scores \X VecScores \X Bm25Scores \X VecScores }
    /\ hsDigests \in { {[id |-> "d1", vec |-> v1], [id |-> "d2", vec |-> v2]} :
                         <<v1, v2>> \in VecScores \X VecScores }
    /\ hsPc = "input"
    /\ hsCall = NoCall
    /\ hsOut = <<>>

SearchIdle ==
    /\ hsChunks = {}
    /\ hsDigests = {}
    /\ hsPc = "idle"
    /\ hsCall = NoCall
    /\ hsOut = <<>>

\* One call of hybrid_search.
HybridSearch ==
    /\ hsPc = "input"
    /\ \E top_k \in 0..MaxTopK :
       \E bm25_results \in bm25_query(top_k),
          vector_results \in vector_query(top_k),
          digest_results \in digest_query(top_k) :
            /\ hsCall' = [top_k |-> top_k, bm25_results |-> bm25_results,
                          vector_results |-> vector_results,
                          digest_results |-> digest_results]
            /\ hsOut' = combine_and_rerank(bm25_results, vector_results,
                                           digest_results, top_k)
    /\ hsPc' = "returned"
    /\ UNCHANGED <<hsChunks, hsDigests>>

(***************************************************************************)
(* DIGEST PIPELINE  (src/app/ingest/group_digest.py, src/app/db/repo.py)   *)
(*                                                                         *)
(* A message row is [id, chat_id, sender_id, text, kept, created_at]; a    *)
(* text is the sequence of its words.  created_at and dates are days.      *)
(* A provider or store failure is an input of the operation: fault names   *)
(* the call that fails ("llm", "embed", "store") or is "none".             *)
(***************************************************************************)
\* Most messages ever stored.
MaxMessages == 3
\* Most digests ever stored.
MaxDigests == 2
\* Longest date range of a backfill, in days.
MaxRange == 3

\* The days at which the clock is observed.
TimePoints == {0, 1, 2, 16}
ChatIds    == {-100}
SenderIds  == {1, 2}
MessageTexts == { <<"hi">>, <<"ai", "course", "?">> }
Faults     == {"none", "llm", "embed", "store"}
\* The retention periods cleanup is called with; 14 is the default.
default_days == 14
CleanupDays == {1, default_days}

default_keywords == {"ai", "course"}

Contains(text, words) == \E i \in 1..Len(text) : text[i] \in words

\* utils.text.should_keep_message with the default keywords.
should_keep_message(text) ==
    IF text = <<>> THEN FALSE
    ELSE IF Contains(text, {"?"}) THEN TRUE
    ELSE IF Contains(text, default_keywords) THEN TRUE
    ELSE IF Contains(text, {"@"}) THEN TRUE
    ELSE FALSE

\* repo.store_message: the row inserted.
message_row(id, chat_id, sender_id, text, kept, created_at) ==
    [id |-> id, chat_id |-> chat_id, sender_id |-> sender_id, text |-> text,
     kept |-> kept, created_at |-> created_at]

\* repo.get_kept_messages_for_digest: kept = TRUE AND DATE(created_at) = date.
get_kept_messages_for_digest(messages, date) ==
    {m \in messages : m.kept = TRUE /\ m.created_at = date}

\* cleanup_deletes without the test of kept.
cleanup_deletes_kept_too(m, cutoff_date) ==
    m.created_at < cutoff_date

\* The condition of the DELETE of repo.cleanup_old_messages.
cleanup_deletes(m, cutoff_date) ==
    m.created_at < cutoff_date /\ m.kept = FALSE

\* repo.cleanup_old_messages: the rows left, with cutoff = now - days.
cleanup_old_messages(messages, now, days) ==
    LET cutoff_date == now - days
    IN  {m \in messages : ~cleanup_deletes(m, cutoff_date)}

NoCalls == [llm |-> 0, embed |-> 0, store |-> 0]

\* digest_row counting the messages as senders.
digest_row_sender_per_message(date, messages) ==
    [date |-> date,
     message_count |-> Cardinality(messages),
     chat_ids |-> {m.chat_id : m \in messages},
     user_count |-> Cardinality(messages)]

\* The digest row generate_daily_digest stores through embed_digest.
digest_row(date, messages) ==
    [date |-> date,
     message_count |-> Cardinality(messages),
     chat_ids |-> {m.chat_id : m \in messages},
     user_count |-> Cardinality({m.sender_id : m \in messages})]

\* no_messages never taking the no-op branch.
no_messages_skipped(messages) == FALSE

\* The test of generate_daily_digest for the no-op result.
no_messages(messages) == messages = {}

\* GroupDigestGenerator.generate_daily_digest on the given store contents:
\* what it returns or raises, the provider and store calls it made, and the
\* digests afterwards.
generate_daily_digest(target_date, messages_table, digests, fault) ==
    LET messages == get_kept_messages_for_digest(messages_table, target_date)
    IN  IF no_messages(messages)
        THEN [raised |-> FALSE, calls |-> NoCalls, digests |-> digests,
              result |-> [date |-> target_date, digest_created |-> FALSE,
                          message |-> "No kept messages found for this date"]]
        ELSE IF fault = "llm"
        THEN [raised |-> TRUE, calls |-> [llm |-> 1, embed |-> 0, store |-> 0],
              digests |-> digests, result |-> [error |-> "llm"]]
        ELSE IF fault = "embed"
        THEN [raised |-> TRUE, calls |-> [llm |-> 1, embed |-> 1, store |-> 0],
              digests |-> digests, result |-> [error |-> "embed"]]
        ELSE IF fault = "store"
        THEN [raised |-> TRUE, calls |-> [llm |-> 1, embed |-> 1, store |-> 1],
              digests |-> digests, result |-> [error |-> "store"]]
        ELSE [raised |-> FALSE, calls |-> [llm |-> 1, embed |-> 1, store |-> 1],
              digests |-> Append(digests, digest_row(target_date, messages)),
              result |-> [date |-> target_date, digest_created |-> TRUE,
                          digest_id |-> Len(digests) + 1,
                          message_count |-> Cardinality(messages)]]

\* range_step without the try block: a failure of the day leaves the loop.
range_step_no_try(st, current_date, messages_table, fault) ==
    LET r == generate_daily_digest(current_date, messages_table, st.digests, fault)
    IN  IF r.raised
        THEN [results |-> st.results, digests |-> r.digests, raised |-> TRUE]
        ELSE [results |-> Append(st.results, r.result),
              digests |-> r.digests, raised |-> FALSE]

\* One iteration of the loop of generate_digest_for_date_range: the try block
\* around generate_daily_digest.  st is [results, digests, raised].
range_step(st, current_date, messages_table, fault) ==
    LET r == generate_daily_digest(current_date, messages_table, st.digests, fault)
    IN  IF r.raised
        THEN [results |-> Append(st.results,
                                 [date |-> current_date, digest_created |-> FALSE,
                                  error |-> r.result.error]),
              digests |-> r.digests, raised |-> FALSE]
        ELSE [results |-> Append(st.results, r.result),
              digests |-> r.digests, raised |-> FALSE]

\* The while loop of generate_digest_for_date_range; fail_days are the days
\* whose provider or store call fails, fault the call that fails on them.
RECURSIVE range_loop(_, _, _, _, _, _)
range_loop(st, current_date, end_date, messages_table, fail_days, fault) ==
    IF st.raised \/ ~(current_date <= end_date) THEN st
    ELSE range_loop(
             range_step(st, current_date, messages_table,
                        IF current_date \in fail_days THEN fault ELSE "none"),
             current_date + 1, end_date, messages_table, fail_days, fault)

\* GroupDigestGenerator.generate_digest_for_date_range.
generate_digest_for_date_range(start_date, end_date, messages_table, digests, fail_days, fault) ==
    range_loop([results |-> <<>>, digests |-> digests, raised |-> FALSE],
               start_date, end_date, messages_table, fail_days, fault)

DigestInit ==
    /\ dgNow = 0
    /\ dgMessages = {}
    /\ dgNextId = 1
    /\ dgDigests = <<>>
    /\ dgOp = [op |-> "none"]

\* The messages a day of a backfilled table may hold: none, one that is not
\* kept, one kept, or two kept from two senders.
DayMenus ==
    { {}, {<<1, <<"hi">>>>}, {<<1, <<"why", "?">>>>},
      {<<1, <<"ai", "course">>>>, <<2, <<"@", "bob">>>>} }

\* The rows of a table whose day d holds the messages menu[d].
backfill_table(menu) ==
    UNION { { message_row(3 * d + e[1], -100, e[1], e[2],
                          should_keep_message(e[2]), d) : e \in menu[d] } :
            d \in DOMAIN menu }

BackfillInit ==
    /\ dgNow = 16
    /\ dgMessages \in {backfill_table(menu) : menu \in [0..2 -> DayMenus]}
    /\ dgNextId = 10
    /\ dgDigests = <<>>
    /\ dgOp = [op |-> "none"]

DigestIdle ==
    /\ dgNow = 0
    /\ dgMessages = {}
    /\ dgNextId = 1
    /\ dgDigests = <<>>
    /\ dgOp = [op |-> "idle"]

\* The clock moves to the next day at which it is observed.
AdvanceClock ==
    /\ \E t \in TimePoints :
          /\ t > dgNow
          /\ \A u \in TimePoints : u > dgNow => t <= u
          /\ dgNow' = t
    /\ dgOp' = [op |-> "advance"]
    /\ UNCHANGED <<dgMessages, dgNextId, dgDigests>>

\* GroupDigestGenerator.process_message_for_digest.
ProcessMessageForDigest ==
    /\ dgNextId <= MaxMessages
    /\ \E chat_id \in ChatIds, sender_id \in SenderIds, text \in MessageTexts :
          LET should_keep == should_keep_message(text)
          IN  /\ dgMessages' = dgMessages \cup
                     {message_row(dgNextId, chat_id, sender_id, text,
                                  should_keep, dgNow)}
              /\ dgOp' = [op |-> "store_message", kept |-> should_keep]
    /\ dgNextId' = dgNextId + 1
    /\ UNCHANGED <<dgNow, dgDigests>>

\* GroupDigestGenerator.generate_daily_digest, from the scheduler's job
\* 'daily_digest' or the admin endpoint (target_date None: yesterday).
GenerateDailyDigest ==
    /\ Len(dgDigests) < MaxDigests
    /\ \E fault \in Faults :
          LET date_arg == NULL
              target_date == IF date_arg = NULL THEN dgNow - 1 ELSE date_arg
              r == generate_daily_digest(target_date, dgMessages, dgDigests, fault)
          IN  /\ dgDigests' = r.digests
              /\ dgOp' = [op |-> "daily_digest", date |-> target_date,
                          fault |-> fault,
                          raised |-> r.raised, calls |-> r.calls,
                          result |-> r.result]
    /\ UNCHANGED <<dgNow, dgMessages, dgNextId>>

\* GroupDigestGenerator.cleanup_old_messages, from the scheduler's job
\* 'cleanup_messages' or the admin endpoint.
CleanupOldMessages ==
    /\ \E days \in CleanupDays :
          /\ dgMessages' = cleanup_old_messages(dgMessages, dgNow, days)
          /\ dgOp' = [op |-> "cleanup", days |-> days, now |-> dgNow,
                      deleted |-> Cardinality(dgMessages)
                                     - Cardinality(dgMessages')]
    /\ UNCHANGED <<dgNow, dgNextId, dgDigests>>

\* GroupDigestGenerator.generate_digest_for_date_range.
GenerateDigestForDateRange ==
    /\ dgOp.op = "none"
    /\ \E start_date \in {-1, 0, 1},
          fault \in Faults \ {"none"} :
       \E end_date \in (start_date - 2)..(start_date + MaxRange - 1) :
       \E fail_days \in SUBSET (start_date..end_date) :
          LET r == generate_digest_for_date_range(start_date, end_date,
                       dgMessages, dgDigests, fail_days, fault)
          IN  /\ dgDigests' = r.digests
              /\ dgOp' = [op |-> "date_range", start_date |-> start_date,
                          end_date |-> end_date, fail_days |-> fail_days,
                          raised |-> r.raised, results |-> r.results]
    /\ UNCHANGED <<dgNow, dgMessages, dgNextId>>

(***************************************************************************)
(* PROVIDER CALLS  (src/app/llm/client.py, _retry_with_backoff)            *)
(*                                                                         *)
(* A call runs the loop of _retry_with_backoff one await at a time: an     *)
(* attempt ends with a value or with an exception, and a sleep ends.       *)
(* rtLog records [type |-> "ok", value], [type |-> "fail", error] and      *)
(* [type |-> "sleep", delay] in the order they happen.                     *)
(***************************************************************************)
max_retries == 3
retry_delay == 1

CallKinds      == {"chat_completion", "embed_text", "embed_batch"}
ProviderValues == {"v1", "v2"}
ProviderErrors == {"timeout", "rate_limit", "server_error"}
None == "None"

\* backoff_delay with the exponent one too high.
backoff_delay_late(attempt) == retry_delay * (2 ^ (attempt + 1))

\* The argument of asyncio.sleep: retry_delay * (2 ** attempt).
backoff_delay(attempt) == retry_delay * (2 ^ attempt)

\* is_last_attempt comparing with max_retries instead of max_retries - 1.
is_last_attempt_off_by_one(attempt) == attempt = max_retries

\* The test "attempt == self.max_retries - 1" of the except branch.
is_last_attempt(attempt) == attempt = max_retries - 1

RetryInit ==
    /\ rtKind = "none"
    /\ rtPc = "idle"
    /\ rtAttempt = 0
    /\ rtLog = <<>>
    /\ rtResult = None

RetryIdle ==
    /\ rtKind = "none"
    /\ rtPc = "unused"
    /\ rtAttempt = 0
    /\ rtLog = <<>>
    /\ rtResult = None

\* chat_completion, embed_text or embed_batch is called: the loop starts with
\* attempt = 0.
StartCall ==
    /\ rtPc \in {"idle", "returned", "raised"}
    /\ 0 < max_retries
    /\ \E kind \in CallKinds : rtKind' = kind
    /\ rtPc' = "attempt"
    /\ rtAttempt' = 0
    /\ rtLog' = <<>>
    /\ rtResult' = None

\* "return await func(...)": the attempt succeeds and the call returns.
AttemptSucceeds ==
    /\ rtPc = "attempt"
    /\ \E value \in ProviderValues :
          /\ rtLog' = Append(rtLog, [type |-> "ok", value |-> value])
          /\ rtResult' = value
    /\ rtPc' = "returned"
    /\ UNCHANGED <<rtKind, rtAttempt>>

\* The attempt raises: the last attempt re-raises, the others go to sleep.
AttemptFails ==
    /\ rtPc = "attempt"
    /\ \E error \in ProviderErrors :
          /\ rtLog' = Append(rtLog, [type |-> "fail", error |-> error])
          /\ IF is_last_attempt(rtAttempt)
             THEN rtPc' = "raised" /\ rtResult' = error
             ELSE rtPc' = "sleep" /\ rtResult' = rtResult
    /\ UNCHANGED <<rtKind, rtAttempt>>

\* asyncio.sleep(delay) ends and the loop goes to the next attempt; a loop
\* that runs out of attempts returns None.
Sleep ==
    /\ rtPc = "sleep"
    /\ rtLog' = Append(rtLog, [type |-> "sleep",
                               delay |-> backoff_delay(rtAttempt)])
    /\ rtAttempt' = rtAttempt + 1
    /\ rtPc' = IF rtAttempt + 1 < max_retries THEN "attempt" ELSE "returned"
    /\ UNCHANGED <<rtKind, rtResult>>

(***************************************************************************)
(* EMBEDDING MANAGER  (src/app/retrieval/embed.py)                         *)
(*                                                                         *)
(* A chunk is [text, tokens]; texts are numbers.  The embedding of text t  *)
(* is [of |-> t].  A doc_chunks row is [doc_id, text, tokens, embedding,   *)
(* chunk_index].  A request is the list of texts of one embed_batch call.  *)
(* fault is [kind |-> "none"], [kind |-> "embed", at |-> k] (the k-th      *)
(* embed_batch call fails after its retries) or [kind |-> "store",         *)
(* at |-> j] (the j-th store_chunk call fails).                            *)
(***************************************************************************)
batch_size == 10

\* Longest list of chunks embed_chunks is called with.
MaxChunks == 21

DocIds == {"doc1", "doc2"}

Reverse(list) == [i \in 1..Len(list) |-> list[Len(list) + 1 - i]]

\* The provider's answer to one embed_batch request.
embed_batch(batch_texts, ordered) ==
    LET embeddings == [i \in 1..Len(batch_texts) |-> [of |-> batch_texts[i]]]
    IN  IF ordered THEN embeddings ELSE Reverse(embeddings)

\* The number of iterations of "for i in range(0, len(texts), batch_size)".
batch_count(n) == (n + batch_size - 1) \div batch_size

\* texts[i:i + batch_size] for the k-th iteration (i = (k - 1) * batch_size).
batch_texts_of(texts, k) ==
    SubSeq(texts, (k - 1) * batch_size + 1, Min(k * batch_size, Len(texts)))

\* The embedding loop up to and including iteration k: the requests sent and
\* the embeddings collected.
RECURSIVE embed_loop(_, _, _)
embed_loop(texts, k, ordered) ==
    IF k = 0 THEN [requests |-> <<>>, embeddings |-> <<>>]
    ELSE LET before == embed_loop(texts, k - 1, ordered)
             batch  == batch_texts_of(texts, k)
         IN  [requests   |-> Append(before.requests, batch),
              embeddings |-> before.embeddings \o embed_batch(batch, ordered)]

\* chunk_index_of numbering the chunks within their batch.
chunk_index_in_batch(stored_count) == stored_count % batch_size

\* meta.chunk_index of the next stored chunk: len(stored_chunks).
chunk_index_of(stored_count) == stored_count

\* The row store_chunk inserts for a chunk of embed_chunks.
chunk_row(doc_id, chunk, embedding, stored_count) ==
    [doc_id |-> doc_id, text |-> chunk.text, tokens |-> chunk.tokens,
     embedding |-> embedding, chunk_index |-> chunk_index_of(stored_count)]

\* The rows of the first j pairs of zip(chunks, embeddings).
stored_rows(doc_id, chunks, embeddings, j) ==
    [i \in 1..Min(j, Min(Len(chunks), Len(embeddings))) |->
        chunk_row(doc_id, chunks[i], embeddings[i], i - 1)]

\* embed_fails with the exception of embed_batch swallowed.
embed_fails_swallowed(fault, batches) == FALSE

\* "await llm_client.embed_batch(batch_texts)" raises in one of the iterations
\* of the batch loop; nothing in embed_chunks catches it.
embed_fails(fault, batches) == fault.kind = "embed" /\ fault.at <= batches

\* EmbeddingManager.embed_chunks: whether it raises, the requests it sent,
\* the list it returns and the table afterwards.
embed_chunks(chunks, doc_id, store, ordered, fault) ==
    IF chunks = <<>>
    THEN [raised |-> FALSE, requests |-> <<>>, stored_chunks |-> <<>>,
          store |-> store]
    ELSE LET texts   == [i \in 1..Len(chunks) |-> chunks[i].text]
             batches == batch_count(Len(texts))
         IN  IF embed_fails(fault, batches)
             THEN [raised |-> TRUE,
                   requests |-> embed_loop(texts, fault.at, ordered).requests,
                   stored_chunks |-> <<>>, store |-> store]
             ELSE LET done == embed_loop(texts, batches, ordered)
                      fails == fault.kind = "store" /\ fault.at <= Len(chunks)
                      rows == stored_rows(doc_id, chunks, done.embeddings,
                                          IF fails THEN fault.at - 1
                                          ELSE Len(chunks))
                  IN  [raised |-> fails, requests |-> done.requests,
                       stored_chunks |-> IF fails THEN <<>> ELSE rows,
                       store |-> store \o rows]

\* delete_document_chunks deleting nothing.
delete_document_chunks_none(store, doc_id) == store

\* repo.delete_document_chunks: DELETE FROM doc_chunks WHERE doc_id = %s.
delete_document_chunks(store, doc_id) ==
    SelectSeq(store, LAMBDA row : row.doc_id # doc_id)

\* EmbeddingManager.reindex_document: whether it raises, the value it returns
\* and the table afterwards.
reindex_document(doc_id, chunks, store, ordered, fault) ==
    LET r == embed_chunks(chunks, doc_id,
                          delete_document_chunks(store, doc_id), ordered, fault)
    IN  [raised |-> r.raised, requests |-> r.requests,
         stored_chunks |-> r.stored_chunks,
         returned |-> IF r.raised THEN NULL ELSE Len(r.stored_chunks),
         store |-> r.store]

\* The chunk lists embed_chunks is called with: n chunks whose texts are all
\* different, or whose texts alternate between two values.
ChunkLists ==
    UNION { { [i \in 1..n |-> [text |-> i, tokens |-> 300 + i]],
              [i \in 1..n |-> [text |-> 100 + (i % 2), tokens |-> 300]] } :
            n \in 0..MaxChunks }

\* The tables embed_chunks starts from.
old_row(doc_id, index) ==
    [doc_id |-> doc_id, text |-> 900 + index, tokens |-> 300,
     embedding |-> [of |-> 900 + index], chunk_index |-> index]

InitialStores ==
    { <<>>,
      <<old_row("doc1", 0), old_row("doc1", 1)>>,
      <<old_row("doc1", 0), old_row("doc2", 0)>> }

EmbedFaults ==
    {[kind |-> "none", at |-> 0]}
        \cup {[kind |-> "embed", at |-> k] : k \in 1..batch_count(MaxChunks)}
        \cup {[kind |-> "store", at |-> j] : j \in 1..MaxChunks}

EmbedInit ==
    /\ emChunks \in ChunkLists
    /\ emDocId \in DocIds
    /\ emOrdered \in BOOLEAN
    /\ emStore \in InitialStores
    /\ emOp = [op |-> "none"]

EmbedIdle ==
    /\ emChunks = <<>>
    /\ emDocId = "none"
    /\ emOrdered = TRUE
    /\ emStore = <<>>
    /\ emOp = [op |-> "idle"]

\* One call of EmbeddingManager.embed_chunks(chunks, doc_id).
EmbedChunks ==
    /\ emOp.op = "none"
    /\ \E fault \in EmbedFaults :
          LET r == embed_chunks(emChunks, emDocId, emStore, emOrdered, fault)
          IN  /\ emStore' = r.store
              /\ emOp' = [op |-> "embed_chunks", fault |-> fault,
                          raised |-> r.raised, requests |-> r.requests,
                          stored_chunks |-> r.stored_chunks,
                          store_before |-> emStore]
    /\ UNCHANGED <<emChunks, emDocId, emOrdered>>

\* One call of EmbeddingManager.reindex_document(doc_id, chunks), with no
\* other writer of the table.
ReindexDocument ==
    /\ emOp.op = "none"
    /\ \E fault \in EmbedFaults :
          LET r == reindex_document(emDocId, emChunks, emStore, emOrdered, fault)
          IN  /\ emStore' = r.store
              /\ emOp' = [op |-> "reindex_document", fault |-> fault,
                          raised |-> r.raised, requests |-> r.requests,
                          stored_chunks |-> r.stored_chunks,
                          returned |-> r.returned,
                          store_before |-> emStore]
    /\ UNCHANGED <<emChunks, emDocId, emOrdered>>

(***************************************************************************)
(* DOCUMENT UPLOAD  (src/app/ingest/uploader.py, src/app/db/repo.py)       *)
(*                                                                         *)
(* A docs row is [id, title, version, is_active].  Uploads run as          *)
(* coroutines of one event loop: an upload runs from one await on the      *)
(* store to the next in one step, and the steps of different uploads       *)
(* interleave.  Each repo method opens its own connection; the SELECT and  *)
(* the INSERT of update_document_version are two statements between which  *)
(* another upload may run.                                                 *)
(***************************************************************************)
\* Most uploads ever started.
MaxUploads == 3

Handlers == {"h1", "h2"}
Titles   == {"guide", "faq"}
\* Each upload is chunked into this many chunks.
ChunksPerUpload == {1, 2}

\* The version a docs row gets when the INSERT gives none.
default_version == 1

\* A row inserted in docs: is_active takes its default.
doc_row(id, title, version) ==
    [id |-> id, title |-> title, version |-> version, is_active |-> TRUE]

ActiveRows(docs, title) == {d \in docs : d.title = title /\ d.is_active}

MaxVersion(rows) ==
    CHOOSE v \in {d.version : d \in rows} : \A d \in rows : d.version <= v

\* "SELECT ... WHERE title = %s AND is_active = TRUE ORDER BY version DESC
\* LIMIT 1": the rows the query may return (none when there is no such row).
top_active_rows(docs, title) ==
    {d \in ActiveRows(docs, title) : d.version = MaxVersion(ActiveRows(docs, title))}

\* repo.create_document: the table after the INSERT.
create_document(docs, id, title) ==
    docs \cup {doc_row(id, title, default_version)}

\* The INSERT of repo.update_document_version, made when a current version
\* was found.
update_document_version_insert(docs, id, title, current) ==
    IF current # NULL
    THEN docs \cup {doc_row(id, title, current + 1)}
    ELSE docs

\* repo.deactivate_old_versions: UPDATE docs SET is_active = FALSE WHERE
\* title = %s AND version < (SELECT MAX(version) FROM docs WHERE title = %s).
deactivate_old_versions(docs, title) ==
    LET of_title == {d \in docs : d.title = title}
    IN  { IF d.title = title /\ d.version < MaxVersion(of_title)
          THEN [d EXCEPT !.is_active = FALSE]
          ELSE d : d \in docs }

\* An upload that has not started; docs_before is the table docs as it was
\* when process_upload was called.
IdleUpload == [pc |-> "idle", title |-> "none", upload |-> 0, chunks |-> 0,
               existing_doc |-> NULL, current |-> NULL, doc_id |-> NULL,
               docs_before |-> {}]

UploadInit ==
    /\ upDocs = {}
    /\ upChunkRows = {}
    /\ upNextId = 1
    /\ upStarted = 0
    /\ upProc = [h \in Handlers |-> IdleUpload]

UploadIdle ==
    /\ upDocs = {}
    /\ upChunkRows = {}
    /\ upNextId = 1
    /\ upStarted = 0
    /\ upProc = [h \in {} |-> IdleUpload]

\* process_upload is called: the title is fixed.
BeginUpload(h) ==
    /\ upProc[h].pc \in {"idle", "done", "failed"}
    /\ upStarted < MaxUploads
    /\ \E title \in Titles, n \in ChunksPerUpload :
          upProc' = [upProc EXCEPT ![h] =
                        [IdleUpload EXCEPT !.pc = "get_document",
                                           !.title = title,
                                           !.upload = upStarted + 1,
                                           !.chunks = n,
                                           !.docs_before = upDocs]]
    /\ upStarted' = upStarted + 1
    /\ UNCHANGED <<upDocs, upChunkRows, upNextId>>

\* existing_doc = await repo.get_document_by_title(title); the file is then
\* hashed, saved, read and chunked.
GetDocumentByTitle(h) ==
    /\ upProc[h].pc = "get_document"
    /\ LET rows == top_active_rows(upDocs, upProc[h].title)
       IN  IF rows = {}
           THEN upProc' = [upProc EXCEPT ![h].pc = "create_document"]
           ELSE \E d \in rows :
                   upProc' = [upProc EXCEPT ![h].pc = "select_version",
                                            ![h].existing_doc = d.id,
                                            ![h].doc_id = d.id]
    /\ UNCHANGED <<upDocs, upChunkRows, upNextId, upStarted>>

\* The SELECT of repo.update_document_version.
SelectCurrentVersion(h) ==
    /\ upProc[h].pc = "select_version"
    /\ LET rows == top_active_rows(upDocs, upProc[h].title)
       IN  IF rows = {}
           THEN upProc' = [upProc EXCEPT ![h].pc = "insert_version"]
           ELSE \E d \in rows :
                   upProc' = [upProc EXCEPT ![h].pc = "insert_version",
                                            ![h].current = d.version]
    /\ UNCHANGED <<upDocs, upChunkRows, upNextId, upStarted>>

\* The INSERT of repo.update_document_version: the version bump.
InsertNewVersion(h) ==
    /\ upProc[h].pc = "insert_version"
    /\ upDocs' = update_document_version_insert(upDocs, upNextId,
                     upProc[h].title, upProc[h].current)
    /\ upNextId' = IF upProc[h].current # NULL THEN upNextId + 1 ELSE upNextId
    /\ upProc' = [upProc EXCEPT ![h].pc = "deactivate"]
    /\ UNCHANGED <<upChunkRows, upStarted>>

\* await repo.deactivate_old_versions(title)
DeactivateOldVersions(h) ==
    /\ upProc[h].pc = "deactivate"
    /\ upDocs' = deactivate_old_versions(upDocs, upProc[h].title)
    /\ upProc' = [upProc EXCEPT ![h].pc = "embed_chunks"]
    /\ UNCHANGED <<upChunkRows, upNextId, upStarted>>

\* new_doc = await repo.create_document(title, file.filename)
CreateDocument(h) ==
    /\ upProc[h].pc = "create_document"
    /\ upDocs' = create_document(upDocs, upNextId, upProc[h].title)
    /\ upNextId' = upNextId + 1
    /\ upProc' = [upProc EXCEPT ![h].pc = "embed_chunks",
                                ![h].doc_id = upNextId]
    /\ UNCHANGED <<upChunkRows, upStarted>>

\* stored_chunks = await embedding_manager.embed_chunks(chunks, doc_id): all
\* chunks are stored, or an embed_batch call fails and none is stored, or a
\* store_chunk call fails and the chunks before it are stored.
EmbedUploadChunks(h) ==
    /\ upProc[h].pc = "embed_chunks"
    /\ \E outcome \in {"stored", "embed_failed", "store_failed"} :
          LET stored == IF outcome = "stored" THEN upProc[h].chunks
                        ELSE IF outcome = "store_failed"
                             THEN upProc[h].chunks - 1
                             ELSE 0
          IN  /\ upChunkRows' = upChunkRows \cup
                     { [doc_id |-> upProc[h].doc_id,
                        upload |-> upProc[h].upload,
                        index |-> i - 1] : i \in 1..stored }
              /\ upProc' = [upProc EXCEPT ![h].pc =
                               IF outcome = "stored" THEN "done" ELSE "failed"]
    /\ UNCHANGED <<upDocs, upNextId, upStarted>>

(***************************************************************************)
(* FALLBACK RESPONSES  (src/app/retrieval/retrieve.py)                     *)
(*                                                                         *)
(* A string is the sequence of its characters.  A process has a hash seed, *)
(* drawn when it starts, that salts the interpreter's built-in hash().     *)
(***************************************************************************)
\* "what is ai-ofm?"
QuestionAiOfm ==
    <<"w", "h", "a", "t", " ", "i", "s", " ", "a", "i", "-", "o", "f", "m",
      "?">>

\* "how do i start?"
QuestionStart ==
    <<"h", "o", "w", " ", "d", "o", " ", "i", " ", "s", "t", "a", "r", "t",
      "?">>

\* "what is the course about?"
QuestionCourse ==
    <<"w", "h", "a", "t", " ", "i", "s", " ", "t", "h", "e", " ", "c", "o",
      "u", "r", "s", "e", " ", "a", "b", "o", "u", "t", "?">>

\* "is it free?"
QuestionFree ==
    <<"i", "s", " ", "i", "t", " ", "f", "r", "e", "e", "?">>

\* ""
QuestionEmpty ==
    <<>>

Questions ==
    {QuestionAiOfm, QuestionStart, QuestionCourse, QuestionFree, QuestionEmpty}

\* hashlib.md5(question.encode()).digest(): the 16 bytes of the digest.
md5_digest(question) ==
    CASE question = QuestionAiOfm ->
            <<173, 203, 151, 72, 204, 83, 226, 215, 42, 119, 192, 60, 43, 110, 116, 250>>
      [] question = QuestionStart ->
            <<127, 57, 74, 16, 84, 208, 166, 166, 188, 161, 43, 177, 53, 137, 143, 135>>
      [] question = QuestionCourse ->
            <<183, 185, 41, 44, 237, 137, 133, 174, 12, 62, 99, 77, 164, 181, 6, 156>>
      [] question = QuestionFree ->
            <<65, 161, 50, 148, 182, 92, 217, 124, 65, 23, 8, 17, 136, 17, 39, 181>>
      [] question = QuestionEmpty ->
            <<212, 29, 140, 217, 143, 0, 178, 4, 233, 128, 9, 152, 236, 248, 66, 126>>

\* int(hexdigest, 16) % n: the digest read as one big-endian number, modulo n.
RECURSIVE int_mod(_, _)
int_mod(bytes, n) ==
    IF bytes = <<>> THEN 0
    ELSE (int_mod(SubSeq(bytes, 1, Len(bytes) - 1), n) * 256
              + bytes[Len(bytes)]) % n

\* The four canned responses, in the order of the list.
fallback_responses ==
    <<
      \* "I don't have specific information about that in my ..."
      <<"I", " ", "d", "o", "n", "'", "t", " ", "h", "a", "v", "e", " ", "s",
        "p", "e", "c", "i", "f", "i", "c", " ", "i", "n", "f", "o", "r", "m",
        "a", "t", "i", "o", "n", " ", "a", "b", "o", "u", "t", " ", "t", "h",
        "a", "t", " ", "i", "n", " ", "m", "y", " ", "k", "n", "o", "w", "l",
        "e", "d", "g", "e", " ", "b", "a", "s", "e", ".", " ", "C", "o", "u",
        "l", "d", " ", "y", "o", "u", " ", "p", "r", "o", "v", "i", "d", "e",
        " ", "m", "o", "r", "e", " ", "c", "o", "n", "t", "e", "x", "t", " ",
        "o", "r", " ", "a", "s", "k", " ", "a", "b", "o", "u", "t", " ", "a",
        " ", "d", "i", "f", "f", "e", "r", "e", "n", "t", " ", "a", "s", "p",
        "e", "c", "t", " ", "o", "f", " ", "t", "h", "e", " ", "O", "n", "l",
        "y", "A", "i", " ", "c", "o", "u", "r", "s", "e", "?">>,
      \* "That's not covered in my current knowledge base. C ..."
      <<"T", "h", "a", "t", "'", "s", " ", "n", "o", "t", " ", "c", "o", "v",
        "e", "r", "e", "d", " ", "i", "n", " ", "m", "y", " ", "c", "u", "r",
        "r", "e", "n", "t", " ", "k", "n", "o", "w", "l", "e", "d", "g", "e",
        " ", "b", "a", "s", "e", ".", " ", "C", "o", "n", "s", "i", "d", "e",
        "r", " ", "u", "p", "l", "o", "a", "d", "i", "n", "g", " ", "r", "e",
        "l", "e", "v", "a", "n", "t", " ", "d", "o", "c", "u", "m", "e", "n",
        "t", "a", "t", "i", "o", "n", " ", "o", "r", " ", "a", "s", "k", "i",
        "n", "g", " ", "a", "b", "o", "u", "t", " ", "A", "I", "-", "O", "F",
        "M", " ", "s", "t", "r", "a", "t", "e", "g", "i", "e", "s", ",", " ",
        "p", "r", "o", "m", "p", "t", " ", "e", "n", "g", "i", "n", "e", "e",
        "r", "i", "n", "g", ",", " ", "o", "r", " ", "c", "o", "u", "r", "s",
        "e", " ", "c", "o", "n", "t", "e", "n", "t", ".">>,
      \* "I don't have that information yet. Try asking abou ..."
      <<"I", " ", "d", "o", "n", "'", "t", " ", "h", "a", "v", "e", " ", "t",
        "h", "a", "t", " ", "i", "n", "f", "o", "r", "m", "a", "t", "i", "o",
        "n", " ", "y", "e", "t", ".", " ", "T", "r", "y", " ", "a", "s", "k",
        "i", "n", "g", " ", "a", "b", "o", "u", "t", " ", "c", "o", "u", "r",
        "s", "e", " ", "m", "a", "t", "e", "r", "i", "a", "l", "s", ",", " ",
        "A", "I", " ", "s", "t", "r", "a", "t", "e", "g", "i", "e", "s", ",",
        " ", "o", "r", " ", "w", "o", "r", "k", "f", "l", "o", "w", " ", "o",
        "p", "t", "i", "m", "i", "z", "a", "t", "i", "o", "n", " ", "t", "e",
        "c", "h", "n", "i", "q", "u", "e", "s", " ", "t", "h", "a", "t", " ",
        "I", " ", "d", "o", " ", "h", "a", "v", "e", " ", "d", "o", "c", "u",
        "m", "e", "n", "t", "e", "d", ".">>,
      \* "That's outside my current knowledge scope. I can h ..."
      <<"T", "h", "a", "t", "'", "s", " ", "o", "u", "t", "s", "i", "d", "e",
        " ", "m", "y", " ", "c", "u", "r", "r", "e", "n", "t", " ", "k", "n",
        "o", "w", "l", "e", "d", "g", "e", " ", "s", "c", "o", "p", "e", ".",
        " ", "I", " ", "c", "a", "n", " ", "h", "e", "l", "p", " ", "w", "i",
        "t", "h", " ", "O", "n", "l", "y", "A", "i", " ", "c", "o", "u", "r",
        "s", "e", " ", "c", "o", "n", "t", "e", "n", "t", ",", " ", "A", "I",
        " ", "i", "m", "p", "l", "e", "m", "e", "n", "t", "a", "t", "i", "o",
        "n", " ", "s", "t", "r", "a", "t", "e", "g", "i", "e", "s", ",", " ",
        "a", "n", "d", " ", "a", "u", "t", "o", "m", "a", "t", "i", "o", "n",
        " ", "w", "o", "r", "k", "f", "l", "o", "w", "s", " ", "i", "f", " ",
        "y", "o", "u", "'", "d", " ", "l", "i", "k", "e", " ", "t", "o", " ",
        "a", "s", "k", " ", "a", "b", "o", "u", "t", " ", "t", "h", "o", "s",
        "e", " ", "t", "o", "p", "i", "c", "s", ".">>
    >>

\* hash_index with the built-in hash() of the question, salted by the hash
\* seed of the process, in place of MD5.
hash_index_builtin(question, seed) ==
    (int_mod(md5_digest(question), Len(fallback_responses)) + seed)
        % Len(fallback_responses)

\* hash_value % len(fallback_responses), with hash_value the MD5 digest of the
\* question; the hash seed of the process plays no part.
hash_index(question, seed) ==
    int_mod(md5_digest(question), Len(fallback_responses))

\* RetrievalEngine.get_fallback_response.
get_fallback_response(question, seed) ==
    fallback_responses[hash_index(question, seed) + 1]

Processes == {"p1", "p2"}
HashSeeds == {0, 1, 2}

FallbackInit ==
    /\ fbSeed \in [Processes -> HashSeeds]
    /\ fbLog = {}

FallbackIdle ==
    /\ fbSeed = [p \in {} |-> 0]
    /\ fbLog = {}

\* One call of get_fallback_response in a process.
GetFallbackResponse ==
    /\ \E p \in Processes, question \in Questions :
          fbLog' = fbLog \cup
              {[process |-> p, question |-> question,
                response |-> get_fallback_response(question, fbSeed[p])]}
    /\ UNCHANGED fbSeed

(***************************************************************************)
(* SCHEDULER  (src/app/ingest/group_digest.py, src/app/handlers/admin.py)  *)
(*                                                                         *)
(* start_scheduler adds the jobs 'daily_digest' and 'cleanup_messages' to  *)
(* an AsyncIOScheduler.  When a trigger of a job fires, the scheduler      *)
(* starts an execution of the job unless the job already has as many       *)
(* executions in progress as its max_instances allows; it then skips the   *)
(* run.  The admin endpoints call generate_daily_digest and                *)
(* cleanup_old_messages directly, outside the scheduler.                   *)
(***************************************************************************)
\* Most trigger times that pass.
MaxFires == 3

\* Most admin requests ever received.
MaxManual == 3

JobIds == {"daily_digest", "cleanup_messages"}
ManualKinds == {"digest", "cleanup"}

\* The scheduler's max_instances of a job added without one.
default_max_instances == 1

\* job_max_instances for jobs added with max_instances=2.
job_max_instances_two(job_id) == 2

\* add_job(..., id=job_id, replace_existing=True): no max_instances is given.
job_max_instances(job_id) == default_max_instances

SchedulerInit ==
    /\ scStarted = FALSE
    /\ scRunning = [job \in JobIds |-> 0]
    /\ scManual = [kind \in ManualKinds |-> 0]
    /\ scFires = 0
    /\ scSkipped = 0
    /\ scRequests = 0

SchedulerIdle ==
    /\ scStarted = FALSE
    /\ scRunning = [job \in {} |-> 0]
    /\ scManual = [kind \in {} |-> 0]
    /\ scFires = 0
    /\ scSkipped = 0
    /\ scRequests = 0

\* digest_generator.start_scheduler(), at application start.
StartScheduler ==
    /\ ~scStarted
    /\ scStarted' = TRUE
    /\ UNCHANGED <<scRunning, scManual, scFires, scSkipped, scRequests>>

\* A trigger time of a job arrives: the job is run, or the run is skipped.
TriggerFires ==
    /\ scStarted
    /\ scFires < MaxFires
    /\ \E job \in JobIds :
          IF scRunning[job] < job_max_instances(job)
          THEN /\ scRunning' = [scRunning EXCEPT ![job] = @ + 1]
               /\ UNCHANGED scSkipped
          ELSE /\ scSkipped' = scSkipped + 1
               /\ UNCHANGED scRunning
    /\ scFires' = scFires + 1
    /\ UNCHANGED <<scStarted, scManual, scRequests>>

\* An execution of a scheduled job returns or raises.
ScheduledRunEnds ==
    /\ \E job \in JobIds :
          /\ scRunning[job] > 0
          /\ scRunning' = [scRunning EXCEPT ![job] = @ - 1]
    /\ UNCHANGED <<scStarted, scManual, scFires, scSkipped, scRequests>>

\* POST /digest/generate or POST /cleanup is received and its handler runs.
ManualRequest ==
    /\ \E kind \in ManualKinds :
          /\ scRequests < MaxManual
          /\ scManual' = [scManual EXCEPT ![kind] = @ + 1]
    /\ scRequests' = scRequests + 1
    /\ UNCHANGED <<scStarted, scRunning, scFires, scSkipped>>

\* The handler of an admin request returns.
ManualRequestEnds ==
    /\ \E kind \in ManualKinds :
          /\ scManual[kind] > 0
          /\ scManual' = [scManual EXCEPT ![kind] = @ - 1]
    /\ UNCHANGED <<scStarted, scRunning, scFires, scSkipped, scRequests>>

(***************************************************************************)
(* RETRIEVAL AND ANSWERS  (src/app/retrieval/retrieve.py,                  *)
(* src/app/handlers/qa.py, src/app/utils/text.py)                          *)
(*                                                                         *)
(* Strings are sequences of characters.  A search result is [type, text,   *)
(* meta]; hybrid_search is given by the list of results it returns.  A     *)
(* call is a request to the provider or to the store, recorded in order.   *)
(***************************************************************************)
retrieval_top_k == 8
max_answer_length == 500
context_messages == 10

\* The length source labels are cut to.
label_length == 20

\* Longest chat_context get_context_for_question is called with.
MaxContextLines == 4

\* Longest list of sources format_answer_with_sources is called with.
MaxSources == 3

\* "hi"
LineHi ==
    <<"h", "i">>

\* "any tips?"
LineTips ==
    <<"a", "n", "y", " ", "t", "i", "p", "s", "?">>

\* The lines of a chat context: "hi", "any tips?" and the empty line.
ContextLines == {LineHi, LineTips, <<>>}

\* " Context: "
ContextLabel ==
    <<" ", "C", "o", "n", "t", "e", "x", "t", ":", " ">>

\* " "
Space ==
    <<" ">>

\* sep.join(list)
RECURSIVE Join(_, _)
Join(sep, list) ==
    IF list = <<>> THEN <<>>
    ELSE IF Len(list) = 1 THEN list[1]
         ELSE list[1] \o sep \o Join(sep, Tail(list))

\* list[-n:]
LastN(list, n) ==
    SubSeq(list, Max(1, Len(list) - n + 1), Len(list))

\* text[:n]
Take(text, n) == SubSeq(text, 1, Min(n, Len(text)))

\* text.rfind(ch) + 1: the position of the last ch in text, 0 if there is none.
RECURSIVE LastIndexOf(_, _)
LastIndexOf(text, ch) ==
    IF text = <<>> THEN 0
    ELSE IF text[Len(text)] = ch THEN Len(text)
         ELSE LastIndexOf(SubSeq(text, 1, Len(text) - 1), ch)

\* text repeated n times
RECURSIVE RepeatText(_, _)
RepeatText(text, n) == IF n = 0 THEN <<>> ELSE text \o RepeatText(text, n - 1)

\* The lists of results hybrid_search may return: none; a chunk of "Course
\* Guide", section "Intro"; that chunk, a digest of 2024-01-05 and the chunk
\* again; a chunk without section and a result of another type.
SearchResultLists ==
    LET title   == <<"C", "o", "u", "r", "s", "e", " ", "G", "u", "i", "d",
                     "e">>
        section == <<"I", "n", "t", "r", "o">>
        date    == <<"2", "0", "2", "4", "-", "0", "1", "-", "0", "5">>
        text_a  == <<"S", "t", "a", "r", "t", " ", "w", "i", "t", "h", " ",
                     "o", "n", "e", " ", "n", "i", "c", "h", "e", ".">>
        text_b  == <<"D", "a", "i", "l", "y", " ", "r", "e", "c", "a", "p",
                     " ", "o", "f", " ", "t", "h", "e", " ", "g", "r", "o",
                     "u", "p", ".">>
        doc     == [type |-> "doc_chunk", text |-> text_a,
                    meta |-> [title |-> title, section |-> section]]
        plain   == [type |-> "doc_chunk", text |-> text_a,
                    meta |-> [title |-> title, section |-> <<>>]]
        digest  == [type |-> "digest", text |-> text_b,
                    meta |-> [date |-> date]]
        other   == [type |-> "unknown", text |-> text_b,
                    meta |-> [date |-> date]]
    IN  {<<>>, <<doc>>, <<doc, digest, doc>>, <<plain, other>>}

\* RetrievalEngine._extract_source_info: "Digest-<date>", "<title>-<section>",
\* "<title>" or "Unknown".
extract_source_info(result) ==
    IF result.type = "digest"
    THEN <<"D", "i", "g", "e", "s", "t", "-">> \o result.meta.date
    ELSE IF result.type = "doc_chunk"
         THEN IF result.meta.section # <<>>
              THEN result.meta.title \o <<"-">> \o result.meta.section
              ELSE result.meta.title
         ELSE <<"U", "n", "k", "n", "o", "w", "n">>

\* RetrievalEngine.retrieve: the calls it makes and what it returns; fault
\* names the call that raises, if any.
retrieve(query, search_results, fault) ==
    LET embed  == [call |-> "embed_text", text |-> query]
        search == [call |-> "hybrid_search", query |-> query,
                   query_embedding |-> [of |-> query],
                   top_k |-> retrieval_top_k]
    IN  IF fault = "embed"
        THEN [raised |-> TRUE, calls |-> <<embed>>,
              context_chunks |-> <<>>, sources |-> <<>>]
        ELSE IF fault = "search"
             THEN [raised |-> TRUE, calls |-> <<embed, search>>,
                   context_chunks |-> <<>>, sources |-> <<>>]
             ELSE [raised |-> FALSE, calls |-> <<embed, search>>,
                   context_chunks |->
                       [i \in 1..Len(search_results) |-> search_results[i].text],
                   sources |->
                       [i \in 1..Len(search_results) |->
                           extract_source_info(search_results[i])]]

\* enhanced_query with every line of the chat context joined.
enhanced_query_all_lines(question, chat_context) ==
    IF chat_context.given /\ chat_context.lines # <<>>
    THEN question \o ContextLabel \o Join(Space, chat_context.lines)
    ELSE question

\* The query get_context_for_question builds.  chat_context is
\* [given, lines]: given is FALSE when the argument is None.
enhanced_query(question, chat_context) ==
    IF chat_context.given /\ chat_context.lines # <<>>
    THEN question \o ContextLabel \o Join(Space, LastN(chat_context.lines, 3))
    ELSE question

\* RetrievalEngine.get_context_for_question
get_context_for_question(question, chat_context, search_results, fault) ==
    retrieve(enhanced_query(question, chat_context), search_results, fault)

\* The chat_context arguments: None, or a list of lines.
ChatContexts ==
    {[given |-> FALSE, lines |-> <<>>]} \cup
    {[given |-> TRUE, lines |-> l] : l \in SeqUpTo(ContextLines, MaxContextLines)}

RetrievalFaults == {"none", "embed", "search"}

\* One call of RetrievalEngine.get_context_for_question(question, chat_context).
GetContextForQuestion ==
    /\ qaOp.op = "none"
    /\ \E question \in Questions, chat_context \in ChatContexts,
          search_results \in SearchResultLists, fault \in RetrievalFaults :
          LET r == get_context_for_question(question, chat_context,
                                            search_results, fault)
          IN  qaOp' = [op |-> "get_context_for_question",
                       question |-> question, chat_context |-> chat_context,
                       fault |-> fault, raised |-> r.raised, calls |-> r.calls,
                       context_chunks |-> r.context_chunks,
                       sources |-> r.sources]
    /\ UNCHANGED qaLogs

\* The sources format_answer_with_sources is called with: "docs/guide.pdf",
\* "guide.pdf", "Course Guide-Intro", "uploads/" and two titles of more than
\* 20 characters that start alike.
SourceSamples ==
    { <<"d", "o", "c", "s", "/", "g", "u", "i", "d", "e", ".", "p", "d",
        "f">>,
      <<"g", "u", "i", "d", "e", ".", "p", "d", "f">>,
      <<"C", "o", "u", "r", "s", "e", " ", "G", "u", "i", "d", "e", "-",
        "I", "n", "t", "r", "o">>,
      <<"u", "p", "l", "o", "a", "d", "s", "/">>,
      <<"A", "d", "v", "a", "n", "c", "e", "d", " ", "P", "r", "o", "m",
        "p", "t", " ", "E", "n", "g", "i", "n", "e", "e", "r", "i", "n",
        "g", " ", "H", "a", "n", "d", "b", "o", "o", "k">>,
      <<"A", "d", "v", "a", "n", "c", "e", "d", " ", "P", "r", "o", "m",
        "p", "t", " ", "E", "n", "g", "i", "n", "e", "e", "r", "i", "n",
        "g", " ", "N", "o", "t", "e", "s">> }

\* "Yes."
AnswerShort ==
    <<"Y", "e", "s", ".">>

\* "Pick one niche first."
AnswerNiche ==
    <<"P", "i", "c", "k", " ", "o", "n", "e", " ", "n", "i", "c", "h", "e",
      " ", "f", "i", "r", "s", "t", ".">>

\* What the chat completion may answer: "Yes.", an answer with white space
\* around it, and answers of 484 and of 660 characters.
LlmAnswers ==
    { AnswerShort,
      <<" ">> \o AnswerNiche \o <<"\n">>,
      RepeatText(AnswerNiche \o Space, 22),
      RepeatText(AnswerNiche \o Space, 30) }

\* source.split('/')[-1]
last_path_part(source) ==
    SubSeq(source, LastIndexOf(source, "/") + 1, Len(source))

\* The short name format_citations derives from a source that is a string.
short_name(source) ==
    IF LastIndexOf(source, "/") > 0
    THEN Take(last_path_part(source), label_length)
    ELSE Take(source, label_length)

\* unique_names keeping every name.
unique_names_all(names) == names

\* The loop of format_citations that drops the names seen before.
RECURSIVE unique_names(_)
unique_names(names) ==
    IF names = <<>> THEN <<>>
    ELSE LET before == unique_names(SubSeq(names, 1, Len(names) - 1))
             name   == names[Len(names)]
         IN  IF \E i \in 1..Len(before) : before[i] = name
             THEN before
             ELSE Append(before, name)

\* utils.text.format_citations, for sources that are strings:
\* f"Sources: [{', '.join(unique_names)}]".
format_citations(sources) ==
    IF sources = <<>> THEN <<>>
    ELSE LET short_names == [i \in 1..Len(sources) |-> short_name(sources[i])]
         IN  <<"S", "o", "u", "r", "c", "e", "s", ":", " ", "[">>
                 \o Join(<<",", " ">>, unique_names(short_names)) \o <<"]">>

\* RetrievalEngine.format_answer_with_sources: f"{answer}\n\n{source_citations}".
format_answer_with_sources(answer, sources) ==
    IF sources = <<>> THEN answer
    ELSE answer \o <<"\n", "\n">> \o format_citations(sources)

\* One call of RetrievalEngine.format_answer_with_sources(answer, sources).
FormatAnswerWithSources ==
    /\ qaOp.op = "none"
    /\ \E answer \in {AnswerShort, AnswerNiche},
          sources \in SeqUpTo(SourceSamples, MaxSources) :
          qaOp' = [op |-> "format_answer_with_sources", answer |-> answer,
                   sources |-> sources,
                   result |-> format_answer_with_sources(answer, sources)]
    /\ UNCHANGED qaLogs

\* The rows get_recent_messages may find for the chat, newest first.
RecentMessageLists ==
    { <<>>,
      <<[sender_id |-> 1, text |-> LineTips], [sender_id |-> 2, text |-> LineHi]>>,
      <<[sender_id |-> 1, text |-> LineHi], [sender_id |-> 1, text |-> LineTips],
        [sender_id |-> 2, text |-> LineTips], [sender_id |-> 1, text |-> <<>>],
        [sender_id |-> 1, text |-> LineTips]>> }

\* The rows of qa_logs before the call.
InitialLogs ==
    { <<>>,
      <<[user_id |-> 2, question |-> QuestionFree, answer |-> AnswerShort,
         sources |-> <<>>]>> }

QAInit ==
    /\ qaLogs \in InitialLogs
    /\ qaOp = [op |-> "none"]

QAIdle ==
    /\ qaLogs = <<>>
    /\ qaOp = [op |-> "idle"]

QaFaults == {"none", "embed", "search", "chat", "log"}

\* text.strip()
RECURSIVE strip(_)
strip(text) ==
    IF text = <<>> THEN <<>>
    ELSE IF text[1] \in {" ", "\n", "\t", "\r"} THEN strip(Tail(text))
         ELSE IF text[Len(text)] \in {" ", "\n", "\t", "\r"}
              THEN strip(SubSeq(text, 1, Len(text) - 1))
              ELSE text

\* safe_truncate returning the text as it is.
safe_truncate_whole(text, max_length, suffix) == text

\* utils.text.safe_truncate
safe_truncate(text, max_length, suffix) ==
    IF Len(text) <= max_length THEN text
    ELSE LET truncated  == Take(text, max_length - Len(suffix))
             last_space == LastIndexOf(truncated, " ") - 1
         IN  (IF last_space > 0 THEN Take(truncated, last_space) ELSE truncated)
                 \o suffix

\* has_context taking the chat-completion branch always.
has_context_always(context_chunks) == TRUE

\* "if retrieval_result['context_chunks']"
has_context(context_chunks) == context_chunks # <<>>

\* chat_context of process_question: the texts of the user's own messages
\* among the recent messages of the chat, none without a chat (chat_id None
\* is NULL).
chat_context_of(user_id, chat_id, recent_messages) ==
    IF chat_id # NULL /\ chat_id # 0
    THEN LET recent == Take(recent_messages, context_messages)
             own    == SelectSeq(recent, LAMBDA msg : msg.sender_id = user_id)
         IN  [i \in 1..Len(own) |-> own[i].text]
    ELSE <<>>

\* The row log_qa inserts (latency_ms, a duration, is left out).
qa_log_row(user_id, question, answer, sources) ==
    [user_id |-> user_id, question |-> question, answer |-> answer,
     sources |-> sources]

\* The steps of process_question after retrieval has returned: the answer,
\* its formatting and truncation (with the default suffix "..."), and the log.
answer_and_log(user_id, question, before, retrieval, llm_answer, seed, fault, logs) ==
    LET with_context == has_context(retrieval.context_chunks)
        chat    == [call |-> "chat_completion", question |-> question,
                    context_chunks |-> retrieval.context_chunks,
                    max_tokens |-> max_answer_length]
        calls1  == before \o retrieval.calls
                       \o (IF with_context THEN <<chat>> ELSE <<>>)
        answer  == IF with_context THEN strip(llm_answer)
                   ELSE get_fallback_response(question, seed)
        sources == IF with_context THEN retrieval.sources ELSE <<>>
        final_answer ==
            safe_truncate(format_answer_with_sources(answer, sources),
                          max_answer_length, <<".", ".", ".">>)
        row     == qa_log_row(user_id, question, final_answer, sources)
        log     == [call |-> "log_qa", row |-> row]
    IN  IF with_context /\ fault = "chat"
        THEN [raised |-> TRUE, calls |-> calls1, answer |-> <<>>,
              sources |-> <<>>, context_chunks_used |-> 0, logs |-> logs]
        ELSE IF fault = "log"
             THEN [raised |-> TRUE, calls |-> Append(calls1, log),
                   answer |-> <<>>, sources |-> <<>>,
                   context_chunks_used |-> 0, logs |-> logs]
             ELSE [raised |-> FALSE, calls |-> Append(calls1, log),
                   answer |-> final_answer, sources |-> sources,
                   context_chunks_used |-> Len(retrieval.context_chunks),
                   logs |-> Append(logs, row)]

\* QAHandler.process_question: whether it raises, the calls it makes, what it
\* returns and the table qa_logs afterwards.
process_question(user_id, question, chat_id, recent_messages, search_results, llm_answer, seed, fault, logs) ==
    LET before == IF chat_id # NULL /\ chat_id # 0
                  THEN <<[call |-> "get_recent_messages", chat_id |-> chat_id,
                          limit |-> context_messages]>>
                  ELSE <<>>
        chat_context == [given |-> TRUE,
                         lines |-> chat_context_of(user_id, chat_id,
                                                   recent_messages)]
        retrieval == get_context_for_question(
                         question, chat_context, search_results,
                         IF fault \in RetrievalFaults THEN fault ELSE "none")
    IN  IF retrieval.raised
        THEN [raised |-> TRUE, calls |-> before \o retrieval.calls,
              answer |-> <<>>, sources |-> <<>>, context_chunks_used |-> 0,
              logs |-> logs]
        ELSE answer_and_log(user_id, question, before, retrieval, llm_answer,
                            seed, fault, logs)

\* One call of QAHandler.process_question(user_id, question, chat_id), by
\* user 1, without a chat or in chat -100.
ProcessQuestion ==
    /\ qaOp.op = "none"
    /\ \E user_id \in {1}, question \in Questions, chat_id \in {NULL, -100},
          recent_messages \in RecentMessageLists,
          search_results \in SearchResultLists, llm_answer \in LlmAnswers,
          seed \in HashSeeds, fault \in QaFaults :
          LET r == process_question(user_id, question, chat_id, recent_messages,
                                    search_results, llm_answer, seed, fault,
                                    qaLogs)
          IN  /\ qaLogs' = r.logs
              /\ qaOp' = [op |-> "process_question", user_id |-> user_id,
                          question |-> question, chat_id |-> chat_id,
                          recent_messages |-> recent_messages,
                          search_results |-> search_results, fault |-> fault,
                          raised |-> r.raised, calls |-> r.calls,
                          answer |-> r.answer, sources |-> r.sources,
                          context_chunks_used |-> r.context_chunks_used,
                          logs_before |-> qaLogs]

(***************************************************************************)
(* MESSAGE HANDLER  (src/app/bot.py, handle_message)                       *)
(*                                                                         *)
(* A message is [chat_type, text, entities]: text is the sequence of its   *)
(* words (empty for a message without text), entities the types of its     *)
(* entities.  A messages row is [chat_id, sender_id, text, kept].          *)
(* monitoring_active is False, as when the module is loaded.  fault names  *)
(* the await that raises ("store", "permission", "qa") or is "none".       *)
(***************************************************************************)
\* Most messages ever handled.
MaxHandled == 2

ChatTypes == {"private", "group", "supergroup"}

\* The texts and entities of the incoming messages: a greeting, a question, a
\* question that mentions the bot, a question that mentions another user, a
\* text with a link, a command no other handler takes, and no text.
IncomingMessages ==
    { [text |-> <<"hi">>, entities |-> <<>>],
      [text |-> <<"why", "?">>, entities |-> <<>>],
      [text |-> <<"@", "bot", "why", "?">>, entities |-> <<"mention">>],
      [text |-> <<"@", "alice", "ai", "?">>, entities |-> <<"mention">>],
      [text |-> <<"see", "link">>, entities |-> <<"url">>],
      [text |-> <<"/", "foo">>, entities |-> <<"bot_command">>],
      [text |-> <<>>, entities |-> <<>>] }

HandlerFaults == {"none", "store", "permission", "qa"}

greeting_words ==
    { <<"hello">>, <<"hi">>, <<"hey">>, <<"good", "morning">>,
      <<"good", "afternoon">>, <<"good", "evening">> }

\* The test of handle_message that ends the handling of a group message:
\* "if not message.text.startswith('/') and not message.entities" (the loop
\* over the entities inside it runs over none, so bot_mentioned stays False).
not_for_bot(text, entities) ==
    ~(text[1] = "/") /\ entities = <<>>

\* What handle_message does after its store step: the permission check and
\* the replies.
check_and_answer(text, allowed, fault) ==
    IF fault = "permission"
    THEN [permission_checked |-> TRUE, replies |-> <<"error">>]
    ELSE IF ~allowed
         THEN [permission_checked |-> TRUE, replies |-> <<"access_denied">>]
         ELSE IF fault = "qa"
              THEN [permission_checked |-> TRUE, replies |-> <<"error">>]
              ELSE IF text \in greeting_words
                   THEN [permission_checked |-> TRUE, replies |-> <<"greeting">>]
                   ELSE [permission_checked |-> TRUE, replies |-> <<"answer">>]

\* handle_message: the rows it stores, whether it checks the sender's
\* permission, and the replies it sends.
handle_message(chat_type, chat_id, user_id, text, entities, allowed, fault) ==
    LET nothing == [stored |-> <<>>, permission_checked |-> FALSE,
                    replies |-> <<>>]
        row     == [chat_id |-> chat_id, sender_id |-> user_id, text |-> text,
                    kept |-> should_keep_message(text)]
    IN  IF text = <<>> THEN nothing
        ELSE IF chat_type \in {"group", "supergroup"}
             THEN IF fault = "store"
                  THEN [nothing EXCEPT !.replies = <<"error">>]
                  ELSE IF not_for_bot(text, entities)
                       THEN [nothing EXCEPT !.stored = <<row>>]
                       ELSE [stored |-> <<row>>] @@
                                check_and_answer(text, allowed, fault)
             ELSE [stored |-> <<>>] @@ check_and_answer(text, allowed, fault)

BotInit ==
    /\ btMessages = <<>>
    /\ btHandled = 0
    /\ btOp = [op |-> "none"]

BotIdle ==
    /\ btMessages = <<>>
    /\ btHandled = 0
    /\ btOp = [op |-> "idle"]

\* One message reaches handle_message and is handled to the end.
HandleMessage ==
    /\ btHandled < MaxHandled
    /\ \E chat_type \in ChatTypes, message \in IncomingMessages,
          user_id \in {1, 2}, allowed \in BOOLEAN, fault \in HandlerFaults :
          LET chat_id == IF chat_type = "private" THEN user_id ELSE -100
              r == handle_message(chat_type, chat_id, user_id, message.text,
                                  message.entities, allowed, fault)
          IN  /\ btMessages' = btMessages \o r.stored
              /\ btOp' = [op |-> "handle_message", chat_type |-> chat_type,
                          chat_id |-> chat_id, user_id |-> user_id,
                          text |-> message.text, entities |-> message.entities,
                          allowed |-> allowed, fault |-> fault,
                          stored |-> r.stored,
                          permission_checked |-> r.permission_checked,
                          replies |-> r.replies]
    /\ btHandled' = btHandled + 1

(***************************************************************************)
(* SPECIFICATIONS                                                          *)
(***************************************************************************)
vars == <<chunkerVars, searchVars, digestVars, retryVars, embedVars, uploadVars, fallbackVars, schedulerVars, qaVars, botVars>>

chunkerOthers == <<searchVars, digestVars, retryVars, embedVars, uploadVars, fallbackVars, schedulerVars, qaVars, botVars>>
InitChunker ==
    ChunkerInit /\ SearchIdle /\ DigestIdle /\ RetryIdle /\ EmbedIdle /\ UploadIdle /\ FallbackIdle /\ SchedulerIdle /\ QAIdle /\ BotIdle
ChunkerNext == ChunkText /\ UNCHANGED chunkerOthers
SpecChunker == InitChunker /\ [][ChunkerNext]_vars

searchOthers == <<chunkerVars, digestVars, retryVars, embedVars, uploadVars, fallbackVars, schedulerVars, qaVars, botVars>>
InitSearch ==
    SearchInit /\ ChunkerIdle /\ DigestIdle /\ RetryIdle /\ EmbedIdle /\ UploadIdle /\ FallbackIdle /\ SchedulerIdle /\ QAIdle /\ BotIdle
SearchNext == HybridSearch /\ UNCHANGED searchOthers
SpecSearch == InitSearch /\ [][SearchNext]_vars

digestOthers == <<chunkerVars, searchVars, retryVars, embedVars, uploadVars, fallbackVars, schedulerVars, qaVars, botVars>>

\* Messages arrive, the clock advances, digests are generated for single
\* dates and old messages are cleaned up.
InitDigest ==
    DigestInit /\ ChunkerIdle /\ SearchIdle /\ RetryIdle /\ EmbedIdle /\ UploadIdle /\ FallbackIdle /\ SchedulerIdle /\ QAIdle /\ BotIdle
DigestNext ==
    \/ AdvanceClock /\ UNCHANGED digestOthers
    \/ ProcessMessageForDigest /\ UNCHANGED digestOthers
    \/ GenerateDailyDigest /\ UNCHANGED digestOthers
    \/ CleanupOldMessages /\ UNCHANGED digestOthers
SpecDigest == InitDigest /\ [][DigestNext]_vars

\* One backfill over a table of messages of days 0..2.
InitBackfill ==
    BackfillInit /\ ChunkerIdle /\ SearchIdle /\ RetryIdle /\ EmbedIdle /\ UploadIdle /\ FallbackIdle /\ SchedulerIdle /\ QAIdle /\ BotIdle
BackfillNext == GenerateDigestForDateRange /\ UNCHANGED digestOthers
SpecBackfill == InitBackfill /\ [][BackfillNext]_vars

retryOthers == <<chunkerVars, searchVars, digestVars, embedVars, uploadVars, fallbackVars, schedulerVars, qaVars, botVars>>

\* Provider calls, one after the other.  Every attempt ends and every sleep
\* ends: the provider calls carry timeouts and asyncio.sleep returns.
InitRetry ==
    RetryInit /\ ChunkerIdle /\ SearchIdle /\ DigestIdle /\ EmbedIdle /\ UploadIdle /\ FallbackIdle /\ SchedulerIdle /\ QAIdle /\ BotIdle
AttemptEnds == (AttemptSucceeds \/ AttemptFails) /\ UNCHANGED retryOthers
SleepEnds == Sleep /\ UNCHANGED retryOthers
RetryNext ==
    \/ StartCall /\ UNCHANGED retryOthers
    \/ AttemptSucceeds /\ UNCHANGED retryOthers
    \/ AttemptFails /\ UNCHANGED retryOthers
    \/ Sleep /\ UNCHANGED retryOthers
SpecRetry ==
    /\ InitRetry
    /\ [][RetryNext]_vars
    /\ WF_vars(AttemptEnds)
    /\ WF_vars(SleepEnds)

embedOthers == <<chunkerVars, searchVars, digestVars, retryVars, uploadVars, fallbackVars, schedulerVars, qaVars, botVars>>

\* One call of embed_chunks or of reindex_document on a table of chunks.
InitEmbed ==
    EmbedInit /\ ChunkerIdle /\ SearchIdle /\ DigestIdle /\ RetryIdle /\ UploadIdle /\ FallbackIdle /\ SchedulerIdle /\ QAIdle /\ BotIdle
EmbedNext ==
    \/ EmbedChunks /\ UNCHANGED embedOthers
    \/ ReindexDocument /\ UNCHANGED embedOthers
SpecEmbed == InitEmbed /\ [][EmbedNext]_vars

uploadOthers == <<chunkerVars, searchVars, digestVars, retryVars, embedVars, fallbackVars, schedulerVars, qaVars, botVars>>

\* Uploads handled concurrently by the request handlers.
InitUpload ==
    UploadInit /\ ChunkerIdle /\ SearchIdle /\ DigestIdle /\ RetryIdle /\ EmbedIdle /\ FallbackIdle /\ SchedulerIdle /\ QAIdle /\ BotIdle
UploadNext ==
    \/ \E h \in Handlers : BeginUpload(h) /\ UNCHANGED uploadOthers
    \/ \E h \in Handlers : GetDocumentByTitle(h) /\ UNCHANGED uploadOthers
    \/ \E h \in Handlers : SelectCurrentVersion(h) /\ UNCHANGED uploadOthers
    \/ \E h \in Handlers : InsertNewVersion(h) /\ UNCHANGED uploadOthers
    \/ \E h \in Handlers : DeactivateOldVersions(h) /\ UNCHANGED uploadOthers
    \/ \E h \in Handlers : CreateDocument(h) /\ UNCHANGED uploadOthers
    \/ \E h \in Handlers : EmbedUploadChunks(h) /\ UNCHANGED uploadOthers
SpecUpload == InitUpload /\ [][UploadNext]_vars

fallbackOthers == <<chunkerVars, searchVars, digestVars, retryVars, embedVars, uploadVars, schedulerVars, qaVars, botVars>>

\* Calls of get_fallback_response in processes with any hash seeds.
InitFallback ==
    FallbackInit /\ ChunkerIdle /\ SearchIdle /\ DigestIdle /\ RetryIdle /\ EmbedIdle /\ UploadIdle /\ SchedulerIdle /\ QAIdle /\ BotIdle
FallbackNext == GetFallbackResponse /\ UNCHANGED fallbackOthers
SpecFallback == InitFallback /\ [][FallbackNext]_vars

schedulerOthers == <<chunkerVars, searchVars, digestVars, retryVars, embedVars, uploadVars, fallbackVars, qaVars, botVars>>

\* The scheduler's jobs and the admin endpoints, running concurrently.
InitScheduler ==
    SchedulerInit /\ ChunkerIdle /\ SearchIdle /\ DigestIdle /\ RetryIdle /\ EmbedIdle /\ UploadIdle /\ FallbackIdle /\ QAIdle /\ BotIdle
SchedulerNext ==
    \/ StartScheduler /\ UNCHANGED schedulerOthers
    \/ TriggerFires /\ UNCHANGED schedulerOthers
    \/ ScheduledRunEnds /\ UNCHANGED schedulerOthers
    \/ ManualRequest /\ UNCHANGED schedulerOthers
    \/ ManualRequestEnds /\ UNCHANGED schedulerOthers
SpecScheduler == InitScheduler /\ [][SchedulerNext]_vars

qaOthers == <<chunkerVars, searchVars, digestVars, retryVars, embedVars, uploadVars, fallbackVars, schedulerVars, botVars>>

\* One call of the retrieval engine or of the question handler.
InitQA ==
    QAInit /\ ChunkerIdle /\ SearchIdle /\ DigestIdle /\ RetryIdle /\ EmbedIdle /\ UploadIdle /\ FallbackIdle /\ SchedulerIdle /\ BotIdle
QANext ==
    \/ GetContextForQuestion /\ UNCHANGED qaOthers
    \/ FormatAnswerWithSources /\ UNCHANGED qaOthers
    \/ ProcessQuestion /\ UNCHANGED qaOthers
SpecQA == InitQA /\ [][QANext]_vars

botOthers == <<chunkerVars, searchVars, digestVars, retryVars, embedVars, uploadVars, fallbackVars, schedulerVars, qaVars>>

\* The messages the dispatcher hands to handle_message, one after the other.
InitBot ==
    BotInit /\ ChunkerIdle /\ SearchIdle /\ DigestIdle /\ RetryIdle /\ EmbedIdle /\ UploadIdle /\ FallbackIdle /\ SchedulerIdle /\ QAIdle
BotNext == HandleMessage /\ UNCHANGED botOthers
SpecBot == InitBot /\ [][BotNext]_vars

(***************************************************************************)
(* CLAIMS                                                                  *)
(***************************************************************************)
InRange(list) == 1..Len(list)

\* C1: every chunk chunk_text returns, other than the last of the returned
\* list, has min_tokens <= tokens <= max_tokens.
C1_TokenBound ==
    ckPc = "returned" =>
        \A i \in 1..(Len(ckChunks) - 1) :
            /\ min_tokens <= ckChunks[i].tokens
            /\ ckChunks[i].tokens <= max_tokens

\* The list hybrid_search sorts: the three query results of the call in
\* concatenation order, each with its combined score.
HsCandidates ==
    LET all_results == hsCall.bm25_results \o hsCall.vector_results
                           \o hsCall.digest_results
    IN  [i \in 1..Len(all_results) |->
            [id |-> all_results[i].id, type |-> all_results[i].type,
             bm25_score |-> all_results[i].bm25_score,
             vector_score |-> all_results[i].vector_score,
             combined_score |->
                 3 * (IF all_results[i].bm25_score = NULL
                      THEN 0 ELSE all_results[i].bm25_score)
               + 7 * (IF all_results[i].vector_score = NULL
                      THEN 0 ELSE all_results[i].vector_score)]]

\* The positions of a result in the concatenation.
HsPositions(r) == {k \in InRange(HsCandidates) : HsCandidates[k] = r}

IsLexical(r) == r.bm25_score # NULL
IsDigest(r)  == r.type = "digest"

\* C3: two results of hybrid_search with equal combined_score appear in
\* concatenation order (lexical, then vector on chunks, then vector on
\* digests, each in the order of its query).
C3_TieBreakOrder ==
    hsPc = "returned" =>
        \A i, j \in InRange(hsOut) :
            (i < j /\ hsOut[i].combined_score = hsOut[j].combined_score) =>
                \A a \in HsPositions(hsOut[i]), b \in HsPositions(hsOut[j]) :
                    a < b

\* A lexical result and a digest result of equal combined score are both
\* returned.
C3_Witness ==
    /\ hsPc = "returned"
    /\ \E i, j \in InRange(hsOut) :
          /\ IsLexical(hsOut[i]) /\ IsDigest(hsOut[j])
          /\ hsOut[i].combined_score = hsOut[j].combined_score
          /\ i < j

\* The candidates hybrid_search left out of the returned list.
HsLeftOut ==
    {k \in InRange(HsCandidates) :
        \A i \in InRange(hsOut) : hsOut[i] # HsCandidates[k]}

\* C4: hybrid_search returns at most top_k results, in non-increasing order
\* of combined_score, and no candidate left out scores more than a returned
\* one.
C4_TopKBest ==
    hsPc = "returned" =>
        /\ Len(hsOut) <= hsCall.top_k
        /\ \A i, j \in InRange(hsOut) :
              i < j => hsOut[i].combined_score >= hsOut[j].combined_score
        /\ \A i \in InRange(hsOut) : HsPositions(hsOut[i]) # {}
        /\ \A k \in HsLeftOut, i \in InRange(hsOut) :
              HsCandidates[k].combined_score <= hsOut[i].combined_score

\* A call whose list is cut: top_k results are returned and a candidate that
\* comes earlier in the concatenation than a returned one is left out.
C4_Witness ==
    /\ hsPc = "returned"
    /\ hsCall.top_k >= 2
    /\ Len(hsOut) = hsCall.top_k
    /\ \E k \in HsLeftOut, i \in InRange(hsOut) :
          /\ HsCandidates[k].combined_score < hsOut[i].combined_score
          /\ \E b \in HsPositions(hsOut[i]) : k < b

\* C5: every result carries combined_score = 0.3 * b + 0.7 * v with an absent
\* score counted as 0, and bm25_score 0.8 with vector_score 0.2 gives 0.38.
C5_ScoreFusion ==
    /\ combined_score(8, 2) = 38
    /\ hsPc = "returned" =>
          \A i \in InRange(hsOut) :
              LET b == IF hsOut[i].bm25_score = NULL
                       THEN 0 ELSE hsOut[i].bm25_score
                  v == IF hsOut[i].vector_score = NULL
                       THEN 0 ELSE hsOut[i].vector_score
              IN  hsOut[i].combined_score = 3 * b + 7 * v

\* A lexical result and a vector result are both returned.
C5_Witness ==
    /\ hsPc = "returned"
    /\ \E i, j \in InRange(hsOut) :
          /\ IsLexical(hsOut[i]) /\ hsOut[i].vector_score = NULL
          /\ hsOut[i].combined_score = 21
          /\ hsOut[j].bm25_score = NULL
          /\ hsOut[j].combined_score = 63

\* The kept messages of a day in the table.
KeptOn(date) == {m \in dgMessages : m.kept /\ m.created_at = date}

\* The days of a backfill on which digest generation raises: the failing days
\* that have kept messages (a day without kept messages calls no provider).
RaisingDays == {d \in dgOp.fail_days : KeptOn(d) # {}}

\* C6: generate_digest_for_date_range returns one entry per day of the range
\* in date order (none when start_date > end_date), a raising day's entry has
\* digest_created = false and an error, the days after it are still
\* processed, and the call does not raise.
C6_BackfillResilience ==
    dgOp.op = "date_range" =>
        LET s   == dgOp.start_date
            e   == dgOp.end_date
            res == dgOp.results
        IN  /\ dgOp.raised = FALSE
            /\ Len(res) = (IF s <= e THEN e - s + 1 ELSE 0)
            /\ \A i \in InRange(res) :
                  LET d == s + i - 1
                  IN  /\ res[i].date = d
                      /\ d \in RaisingDays =>
                            /\ res[i].digest_created = FALSE
                            /\ "error" \in DOMAIN res[i]
                      /\ (d \notin RaisingDays /\ KeptOn(d) # {}) =>
                            /\ res[i].digest_created = TRUE
                            /\ \E k \in InRange(dgDigests) :
                                  dgDigests[k].date = d
                      /\ KeptOn(d) = {} =>
                            /\ res[i].digest_created = FALSE
                            /\ "error" \notin DOMAIN res[i]

\* A backfill of three days whose middle day raises and whose first and last
\* days get their digests.
C6_Witness ==
    /\ dgOp.op = "date_range"
    /\ dgOp.end_date = dgOp.start_date + 2
    /\ Len(dgOp.results) = 3
    /\ dgOp.results[1].digest_created = TRUE
    /\ "error" \in DOMAIN dgOp.results[2]
    /\ dgOp.results[3].digest_created = TRUE

\* C7: generate_daily_digest for a date with no kept message returns
\* digest_created = false, makes no summarization, embedding or persistence
\* call, and leaves the stored digests unchanged.
C7_DigestNoOp ==
    [][ (/\ dgOp'.op = "daily_digest"
         /\ {m \in dgMessages : m.kept /\ m.created_at = dgOp'.date} = {})
        => /\ dgOp'.raised = FALSE
           /\ dgOp'.result.digest_created = FALSE
           /\ dgOp'.calls.llm = 0
           /\ dgOp'.calls.embed = 0
           /\ dgOp'.calls.store = 0
           /\ dgDigests' = dgDigests ]_vars

\* A digest run for a date that has a message, but none kept, while a digest
\* of another date is stored.
C7_Witness ==
    /\ dgOp.op = "daily_digest"
    /\ KeptOn(dgOp.date) = {}
    /\ \E m \in dgMessages : m.created_at = dgOp.date
    /\ dgOp.result.digest_created = FALSE
    /\ Len(dgDigests) = 1

\* C8: cleanup_old_messages(days) at time now keeps every kept message,
\* deletes every message that is not kept and has created_at < now - days,
\* and keeps every message that is not kept and has created_at >= now - days;
\* it adds no message.
C8_CleanupRetention ==
    [][ dgOp'.op = "cleanup" =>
          LET cutoff == dgNow - dgOp'.days
          IN  /\ dgMessages' \subseteq dgMessages
              /\ \A m \in dgMessages :
                    /\ m.kept => m \in dgMessages'
                    /\ (~m.kept /\ m.created_at < cutoff) => m \notin dgMessages'
                    /\ (~m.kept /\ m.created_at >= cutoff) => m \in dgMessages' ]_vars

\* A cleanup with the default 14 days that deleted a message, kept a kept
\* message older than the cutoff and kept a message created at the cutoff.
C8_Witness ==
    /\ dgOp.op = "cleanup"
    /\ dgOp.days = 14
    /\ dgOp.deleted >= 1
    /\ \E m \in dgMessages : m.kept /\ m.created_at < dgOp.now - dgOp.days
    /\ \E m \in dgMessages : ~m.kept /\ m.created_at = dgOp.now - dgOp.days

\* The events of one type in the log of the call, in order.
LogOf(type) == SelectSeq(rtLog, LAMBDA ev : ev.type = type)

\* The call is in progress.
RtRunning == rtPc \in {"attempt", "sleep"}

C9_Policy ==
    LET fails  == LogOf("fail")
        sleeps == LogOf("sleep")
        oks    == LogOf("ok")
    IN  \* at most 3 attempts, and none after a success
        /\ Len(fails) + Len(oks) <= 3
        /\ Len(oks) <= 1
        /\ Len(oks) = 1 => rtLog[Len(rtLog)].type = "ok"
        \* the k-th failure is followed by a wait of 1 for k = 1 and of 2
        \* for k = 2, and by no wait for k = 3
        /\ Len(sleeps) <= 2
        /\ \A k \in InRange(sleeps) : sleeps[k].delay = (IF k = 1 THEN 1 ELSE 2)
        /\ \A i \in InRange(rtLog) :
              rtLog[i].type = "sleep" => (i > 1 /\ rtLog[i - 1].type = "fail")
        /\ rtPc = "attempt" => Len(sleeps) = Len(fails)
        /\ rtPc = "sleep" => (Len(sleeps) = Len(fails) - 1 /\ Len(fails) < 3)
        \* a call that returned returns the value of its successful attempt
        /\ rtPc = "returned" =>
              /\ Len(oks) = 1
              /\ rtResult = oks[1].value
              /\ Len(sleeps) = Len(fails)
        \* a call that raised made 3 failing attempts and raises the third
        \* failure, with no wait after it
        /\ rtPc = "raised" =>
              /\ Len(fails) = 3 /\ Len(oks) = 0 /\ Len(sleeps) = 2
              /\ rtLog[Len(rtLog)].type = "fail"
              /\ rtResult = fails[3].error

\* C9: a provider call makes at most 3 attempts, returns the first success
\* without further attempts, waits 1 after the first failure and 2 after the
\* second, raises the third failure without waiting again, and terminates
\* when every attempt terminates.
C9_RetryPolicy ==
    /\ []C9_Policy
    /\ RtRunning ~> (rtPc \in {"returned", "raised"})

\* A call that raised after failures with different errors, and a call that
\* returned after two failures, are both reachable; this one raised.
C9_Witness ==
    /\ rtPc = "raised"
    /\ Len(rtLog) = 5
    /\ rtLog[1].type = "fail" /\ rtLog[1].error = "timeout"
    /\ rtLog[2].type = "sleep" /\ rtLog[2].delay = 1
    /\ rtLog[4].type = "sleep" /\ rtLog[4].delay = 2
    /\ rtLog[5].type = "fail" /\ rtLog[5].error = "rate_limit"
    /\ rtResult = "rate_limit"

RECURSIVE Flatten(_)
Flatten(lists) ==
    IF lists = <<>> THEN <<>> ELSE Head(lists) \o Flatten(Tail(lists))

\* The rows the last call added to the table.
EmNewRows ==
    SubSeq(emStore, Len(emOp.store_before) + 1, Len(emStore))

\* C10: with a provider that keeps the order of a batch, embed_chunks on n
\* chunks sends ceil(n/10) requests of at most 10 texts each, in input order,
\* and persists exactly n chunks in input order, the i-th (0-based) with the
\* i-th text, the embedding of that text and chunk_index = i.
C10_EmbedChunksOrder ==
    (emOp.op = "embed_chunks" /\ emOp.fault.kind = "none" /\ emOrdered) =>
        LET n == Len(emChunks)
        IN  /\ emOp.raised = FALSE
            /\ Len(emOp.requests) * 10 >= n
            /\ (Len(emOp.requests) - 1) * 10 < n \/ (n = 0 /\ emOp.requests = <<>>)
            /\ \A k \in InRange(emOp.requests) : Len(emOp.requests[k]) <= 10
            /\ Flatten(emOp.requests) = [i \in 1..n |-> emChunks[i].text]
            /\ SubSeq(emStore, 1, Len(emOp.store_before)) = emOp.store_before
            /\ Len(EmNewRows) = n
            /\ emOp.stored_chunks = EmNewRows
            /\ \A i \in 1..n :
                  /\ EmNewRows[i].doc_id = emDocId
                  /\ EmNewRows[i].text = emChunks[i].text
                  /\ EmNewRows[i].embedding = [of |-> emChunks[i].text]
                  /\ EmNewRows[i].chunk_index = i - 1

\* A call on 21 different texts: three requests of 10, 10 and 1 texts, and 21
\* rows stored after the rows the table held.
C10_Witness ==
    /\ emOp.op = "embed_chunks" /\ emOp.fault.kind = "none" /\ emOrdered
    /\ Len(emChunks) = 21
    /\ emChunks[1].text # emChunks[3].text
    /\ Len(emOp.requests) = 3
    /\ Len(emOp.requests[3]) = 1
    /\ emOp.store_before # <<>>
    /\ Len(emStore) = Len(emOp.store_before) + 21

\* An upload of the title is between its version bump and its
\* deactivate-old-versions step.
InUpdateWindow(title) ==
    \E h \in DOMAIN upProc :
        upProc[h].title = title /\ upProc[h].pc = "deactivate"

\* C2: whenever no upload of a title is between its version-bump step and its
\* deactivate-old-versions step, at most one docs row of that title is active.
C2_UniqueActiveVersion ==
    \A title \in Titles :
        ~InUpdateWindow(title) =>
            Cardinality({d \in upDocs : d.title = title /\ d.is_active}) <= 1

\* The embed_batch request of batch emOp.fault.at of the last call failed.
EmBatchFailed ==
    /\ emOp.op = "embed_chunks"
    /\ emOp.fault.kind = "embed"
    /\ (emOp.fault.at - 1) * 10 < Len(emChunks)

\* C11: if the embedding request of a batch of an embed_chunks call fails, the
\* call fails, the rows the table held before are all still there unchanged,
\* and no row of the batch that failed or of a later batch is stored.
C11_BatchFailure ==
    EmBatchFailed =>
        /\ emOp.raised
        /\ Len(emStore) >= Len(emOp.store_before)
        /\ SubSeq(emStore, 1, Len(emOp.store_before)) = emOp.store_before
        /\ \A i \in InRange(EmNewRows) :
              EmNewRows[i].chunk_index < (emOp.fault.at - 1) * 10

\* The second of three batches fails, on a table that held rows.
C11_Witness ==
    /\ EmBatchFailed
    /\ emOp.fault.at = 2
    /\ Len(emChunks) = 21
    /\ Len(emOp.requests) = 2
    /\ emOp.store_before # <<>>
    /\ emOp.raised

\* The words of the sentences chunk_text loops over, in order.
RECURSIVE SentenceWords(_)
SentenceWords(sentences) ==
    IF sentences = <<>> THEN <<>>
    ELSE Head(sentences).words \o SentenceWords(Tail(sentences))

\* The numbers of words at which a sentence of the list starts.
SentenceStarts(sentences) ==
    { Len(SentenceWords(SubSeq(sentences, 1, m))) : m \in 0..(Len(sentences) - 1) }

\* The words of the i-th returned chunk after its first k words.
CkFresh(i, k) == SubSeq(ckChunks[i].text, k + 1, Len(ckChunks[i].text))

RECURSIVE CkFreshUpTo(_, _)
CkFreshUpTo(ks, i) ==
    IF i = 0 THEN <<>> ELSE CkFreshUpTo(ks, i - 1) \o CkFresh(i, ks[i])

C13_TrailingChunk ==
    ckPc = "returned" =>
        /\ ckLoop.current_tokens < 300 => ckChunks = ckLoop.chunks
        /\ (ckLoop.current_chunk # <<>> /\ ckLoop.current_tokens >= 300) =>
              ckChunks = Append(ckLoop.chunks,
                                [text |-> ckLoop.current_chunk,
                                 tokens |-> ckLoop.current_tokens])
        /\ (Len(ckInput) = 3 /\ \A i \in 1..3 : ckInput[i].len > 10)
              /\ SumSeq([i \in 1..3 |-> SumSeq(ckInput[i].words)]) = 40
              => ckChunks = <<>>

\* A chunk was closed inside the loop and the buffer of 60 tokens left after
\* the last sentence was dropped.
C13_Witness ==
    /\ ckPc = "returned"
    /\ Len(ckLoop.chunks) = 1
    /\ ckLoop.current_chunk # <<>>
    /\ ckLoop.current_tokens = 60
    /\ ckChunks = ckLoop.chunks

\* The index int(md5(question).hexdigest(), 16) % 4 of the questions, as
\* hashlib gives it.
FbExpectedIndex(question) ==
    CASE question = QuestionAiOfm -> 2
      [] question = QuestionStart -> 3
      [] question = QuestionCourse -> 0
      [] question = QuestionFree -> 1
      [] question = QuestionEmpty -> 2

\* C14: two calls of get_fallback_response with the same question, in the
\* same or in different processes, return the same response, which is one of
\* the 4 canned responses: the one at index MD5(question) mod 4.
C14_FallbackDeterminism ==
    /\ \A c1 \in fbLog, c2 \in fbLog :
          c1.question = c2.question => c1.response = c2.response
    /\ \A c \in fbLog :
          /\ \E i \in 1..4 : c.response = fallback_responses[i]
          /\ c.response = fallback_responses[FbExpectedIndex(c.question) + 1]

\* The same question was asked in two processes with different hash seeds,
\* and two questions got different responses.
C14_Witness ==
    /\ fbSeed["p1"] # fbSeed["p2"]
    /\ \E c1 \in fbLog, c2 \in fbLog :
          /\ c1.question = c2.question
          /\ c1.process = "p1" /\ c2.process = "p2"
    /\ \E c1 \in fbLog, c2 \in fbLog : c1.response # c2.response

\* The rows of a table owned by a document, and those owned by the others.
EmOwned(store, doc_id) == SelectSeq(store, LAMBDA row : row.doc_id = doc_id)
EmOthers(store, doc_id) == SelectSeq(store, LAMBDA row : row.doc_id # doc_id)

\* C15: after reindex_document(doc_id, chunks) returns, the rows owned by
\* doc_id are exactly the rows of the new chunks, none of the rows doc_id
\* owned before remains, the rows of the other documents are unchanged, and
\* the value returned is the number of new rows stored.
C15_ReindexFrame ==
    (emOp.op = "reindex_document" /\ ~emOp.raised) =>
        LET owned == EmOwned(emStore, emDocId)
            old   == EmOwned(emOp.store_before, emDocId)
        IN  /\ Len(owned) = Len(emChunks)
            /\ \A i \in InRange(owned) :
                  /\ owned[i].text = emChunks[i].text
                  /\ owned[i].tokens = emChunks[i].tokens
            /\ \A i \in InRange(owned), j \in InRange(old) : owned[i] # old[j]
            /\ EmOthers(emStore, emDocId) = EmOthers(emOp.store_before, emDocId)
            /\ emOp.returned = Len(owned)
            /\ emOp.returned = Len(emChunks)

\* A document with two old rows, in a table that holds no other rows, is
\* reindexed with 21 chunks.
C15_Witness ==
    /\ emOp.op = "reindex_document" /\ ~emOp.raised
    /\ emDocId = "doc1"
    /\ Len(EmOwned(emOp.store_before, "doc1")) = 2
    /\ Len(emChunks) = 21
    /\ emOp.returned = 21

\* C17: the store holds at most one digest for any date.
C17_OneDigestPerDate ==
    \A i \in InRange(dgDigests), j \in InRange(dgDigests) :
        i # j => dgDigests[i].date # dgDigests[j].date

\* C16: at no time are two executions of the scheduled job 'daily_digest' in
\* progress, nor two executions of the scheduled job 'cleanup_messages'.
C16_OneExecutionPerJob ==
    /\ scRunning # <<>> => scRunning["daily_digest"] <= 1
    /\ scRunning # <<>> => scRunning["cleanup_messages"] <= 1

\* An execution of each job and a manual digest and a manual cleanup are in
\* progress together, after a run was skipped because its job was running.
C16_Witness ==
    /\ scStarted
    /\ scRunning["daily_digest"] = 1
    /\ scRunning["cleanup_messages"] = 1
    /\ scManual["digest"] >= 1
    /\ scManual["cleanup"] >= 1
    /\ scSkipped >= 1

\* The calls of a kind among the calls of the last operation.
QaCallsOf(kind) == SelectSeq(qaOp.calls, LAMBDA c : c.call = kind)

\* The query of the last get_context_for_question: the text it embedded.
QaQuery == QaCallsOf("embed_text")[1].text

\* The last min(3, n) lines of the chat context of the last call, joined by
\* single spaces.
RECURSIVE QaSpaceJoined(_)
QaSpaceJoined(lines) ==
    IF lines = <<>> THEN <<>>
    ELSE IF Len(lines) = 1 THEN lines[1]
         ELSE lines[1] \o <<" ">> \o QaSpaceJoined(Tail(lines))

QaLastLines ==
    LET lines == qaOp.chat_context.lines
        n == Len(lines)
    IN  [i \in 1..(IF n < 3 THEN n ELSE 3) |->
            lines[n - (IF n < 3 THEN n ELSE 3) + i]]

QaContextReturned ==
    qaOp.op = "get_context_for_question" /\ ~qaOp.raised

\* C19 as stated: the query of get_context_for_question is the question
\* itself when the chat context is empty or absent, and otherwise the
\* question followed by the space-joined last min(3, n) lines.
C19_QueryAsStated ==
    QaContextReturned =>
        QaQuery = IF qaOp.chat_context.lines = <<>>
                  THEN qaOp.question
                  ELSE qaOp.question \o <<" ">> \o QaSpaceJoined(QaLastLines)

\* C19, amended: get_context_for_question embeds once and searches once, both
\* on the same query.  The query is the question itself when the chat context
\* is empty or absent; otherwise it is the question, then " Context: ", then
\* the last min(3, n) lines joined by spaces in their order.
C19_MergedQuery ==
    QaContextReturned =>
        /\ Len(qaOp.calls) = 2
        /\ Len(QaCallsOf("embed_text")) = 1
        /\ Len(QaCallsOf("hybrid_search")) = 1
        /\ QaCallsOf("hybrid_search")[1].query = QaQuery
        /\ QaQuery =
              IF qaOp.chat_context.lines = <<>>
              THEN qaOp.question
              ELSE qaOp.question
                       \o <<" ", "C", "o", "n", "t", "e", "x", "t", ":", " ">>
                       \o QaSpaceJoined(QaLastLines)

\* A call with four chat lines, the first of which differs from the others.
C19_Witness ==
    /\ QaContextReturned
    /\ Len(qaOp.chat_context.lines) = 4
    /\ qaOp.chat_context.lines[1] # qaOp.chat_context.lines[2]
    /\ qaOp.chat_context.lines[1] # qaOp.chat_context.lines[3]
    /\ qaOp.chat_context.lines[1] # qaOp.chat_context.lines[4]
    /\ qaOp.question # <<>>

\* The label of a source: what follows its last "/", cut to 20 characters.
QaLabel(source) ==
    LET slashes == {i \in 1..Len(source) : source[i] = "/"}
        start == IF slashes = {} THEN 1
                 ELSE 1 + CHOOSE i \in slashes : \A j \in slashes : j <= i
        part == [i \in 1..(Len(source) - start + 1) |-> source[start + i - 1]]
    IN  [i \in 1..(IF Len(part) < 20 THEN Len(part) ELSE 20) |-> part[i]]

\* The positions in the sources of the last call at which a label occurs for
\* the first time, in increasing order.
QaFirstPositions ==
    LET n == Len(qaOp.sources)
        firsts == {i \in 1..n : \A j \in 1..(i - 1) :
                       QaLabel(qaOp.sources[j]) # QaLabel(qaOp.sources[i])}
    IN  CHOOSE f \in [1..Cardinality(firsts) -> 1..n] :
            /\ \A k \in DOMAIN f : f[k] \in firsts
            /\ \A k \in DOMAIN f, l \in DOMAIN f : k < l => f[k] < f[l]

RECURSIVE QaCommaJoined(_)
QaCommaJoined(labels) ==
    IF labels = <<>> THEN <<>>
    ELSE IF Len(labels) = 1 THEN labels[1]
         ELSE labels[1] \o <<",", " ">> \o QaCommaJoined(Tail(labels))

\* C20: format_answer_with_sources returns the answer unchanged when sources
\* is empty; otherwise it returns the answer, a blank line and one line
\* "Sources: [...]" listing labels of at most 20 characters, pairwise
\* distinct, in the order in which each label first occurs in sources.
C20_SourcesLine ==
    qaOp.op = "format_answer_with_sources" =>
        IF qaOp.sources = <<>>
        THEN qaOp.result = qaOp.answer
        ELSE LET labels == [k \in DOMAIN QaFirstPositions |->
                               QaLabel(qaOp.sources[QaFirstPositions[k]])]
                 line == <<"S", "o", "u", "r", "c", "e", "s", ":", " ", "[">>
                             \o QaCommaJoined(labels) \o <<"]">>
             IN  /\ qaOp.result = qaOp.answer \o <<"\n", "\n">> \o line
                 /\ \A i \in InRange(line) : line[i] # "\n"
                 /\ \A k \in InRange(labels) : Len(labels[k]) <= 20
                 /\ \A k \in InRange(labels), l \in InRange(labels) :
                       k # l => labels[k] # labels[l]

\* Three sources: two titles of more than 20 characters with the same label
\* around a path, giving two labels.
C20_Witness ==
    /\ qaOp.op = "format_answer_with_sources"
    /\ Len(qaOp.sources) = 3
    /\ Len(qaOp.sources[1]) > 20
    /\ qaOp.sources[1] # qaOp.sources[3]
    /\ QaLabel(qaOp.sources[1]) = QaLabel(qaOp.sources[3])
    /\ \E i \in 1..Len(qaOp.sources[2]) : qaOp.sources[2][i] = "/"
    /\ Len(qaOp.result) = Len(qaOp.answer) + 2 + 10 + 20 + 2 + 9 + 1

\* The text contains "Sources:".
QaHasSourcesLine(text) ==
    \E i \in 1..(Len(text) - 7) :
        SubSeq(text, i, i + 7) = <<"S", "o", "u", "r", "c", "e", "s", ":">>

\* Retrieval of the last process_question returned zero context chunks, and
\* the store took the log.
QaEmptyResult ==
    /\ qaOp.op = "process_question"
    /\ qaOp.search_results = <<>>
    /\ qaOp.fault \in {"none", "chat"}

\* C18: when retrieval returns zero context chunks, process_question returns
\* normally, makes no chat-completion request, answers with the canned
\* fallback response of the question, returns no sources and no "Sources:"
\* line, and logs the interaction.
C18_EmptyResultFallback ==
    QaEmptyResult =>
        /\ ~qaOp.raised
        /\ QaCallsOf("chat_completion") = <<>>
        /\ qaOp.answer = fallback_responses[FbExpectedIndex(qaOp.question) + 1]
        /\ qaOp.sources = <<>>
        /\ ~QaHasSourcesLine(qaOp.answer)
        /\ qaOp.context_chunks_used = 0
        /\ Len(qaLogs) = Len(qaOp.logs_before) + 1
        /\ SubSeq(qaLogs, 1, Len(qaOp.logs_before)) = qaOp.logs_before
        /\ qaLogs[Len(qaLogs)] =
              [user_id |-> qaOp.user_id, question |-> qaOp.question,
               answer |-> qaOp.answer, sources |-> <<>>]

\* A question asked in a chat, with no result found and a provider whose chat
\* completion would fail, on a log that held a row.
C18_Witness ==
    /\ QaEmptyResult
    /\ qaOp.fault = "chat"
    /\ qaOp.chat_id = -100
    /\ qaOp.question = QuestionStart
    /\ qaOp.answer = fallback_responses[4]
    /\ Len(qaLogs) = 2

\* The words of the candidates of ckInput that have at least 10 characters,
\* in order.
CkWordsFromLength10 ==
    SentenceWords(SelectSeq(ckInput, LAMBDA c : c.len >= 10))

\* C21: a sentence candidate of 10 characters or more is kept for chunking and
\* one of 9 characters or fewer is discarded: when the loop of chunk_text
\* closed no chunk, its buffer holds exactly the candidates of 10 characters
\* or more.
C21_NoiseFilter ==
    (ckPc = "returned" /\ ckLoop.chunks = <<>>) =>
        ckLoop.current_chunk = CkWordsFromLength10

\* The embed_batch request of batch emOp.fault.at of the last reindex_document
\* call failed.
EmReindexEmbedFailed ==
    /\ emOp.op = "reindex_document"
    /\ emOp.fault.kind = "embed"
    /\ (emOp.fault.at - 1) * 10 < Len(emChunks)

\* C22: if embedding fails during reindex_document(doc_id, chunks), the call
\* raises, the rows doc_id owned before the call are gone and not restored, and
\* doc_id is left with no rows; the rows of the other documents are as before.
C22_ReindexNotAtomic ==
    EmReindexEmbedFailed =>
        /\ emOp.raised
        /\ EmOwned(emStore, emDocId) = <<>>
        /\ emStore = EmOthers(emOp.store_before, emDocId)

\* The third of three batches fails in a reindex of a document that owned two
\* rows.
C22_Witness ==
    /\ EmReindexEmbedFailed
    /\ emOp.fault.at = 3
    /\ Len(emChunks) = 21
    /\ Len(EmOwned(emOp.store_before, emDocId)) = 2
    /\ emStore = <<>>

\* C23: in a generate_daily_digest call for a date with kept messages, a
\* failure of summarization or of embedding propagates to the caller and
\* leaves the digests as they were; a call that succeeds stores exactly one
\* digest, of that date, whose message_count is the number of kept messages of
\* the date and whose user_count is the number of distinct sender_ids among
\* them.
C23_DigestStoredLast ==
    [][dgOp'.op = "daily_digest" =>
          LET kept    == {m \in dgMessages :
                             m.kept = TRUE /\ m.created_at = dgOp'.date}
              senders == {m.sender_id : m \in kept}
          IN  kept # {} =>
                /\ dgOp'.fault \in {"llm", "embed"} =>
                      dgOp'.raised /\ dgDigests' = dgDigests
                /\ dgOp'.raised => dgDigests' = dgDigests
                /\ ~dgOp'.raised =>
                      /\ Len(dgDigests') = Len(dgDigests) + 1
                      /\ SubSeq(dgDigests', 1, Len(dgDigests)) = dgDigests
                      /\ dgDigests'[Len(dgDigests')].date = dgOp'.date
                      /\ dgDigests'[Len(dgDigests')].message_count
                             = Cardinality(kept)
                      /\ dgDigests'[Len(dgDigests')].user_count
                             = Cardinality(senders)]_vars

\* A digest was stored for a date with two kept messages of one sender.
C23_Witness ==
    /\ dgOp.op = "daily_digest"
    /\ ~dgOp.raised
    /\ dgOp.result.digest_created
    /\ dgDigests[Len(dgDigests)].message_count = 2
    /\ dgDigests[Len(dgDigests)].user_count = 1

\* Every upload so far was made by handler h1, one after the other, and the
\* last one, of a title that had an active version, has completed.
UpSerialReuploadDone ==
    /\ DOMAIN upProc = Handlers
    /\ upProc["h2"] = IdleUpload
    /\ upProc["h1"].pc = "done"
    /\ upProc["h1"].existing_doc # NULL

\* C24: after a re-upload of an existing title completes, with no other upload
\* running, every chunk stored for the title is owned by the title's active,
\* newest version, and no chunk of an earlier upload is attached to an active
\* document.
C24_ReuploadSupersedes ==
    UpSerialReuploadDone =>
        LET title    == upProc["h1"].title
            of_title == {d \in upDocs : d.title = title}
            newest   == {d \in of_title :
                            d.is_active /\ d.version = MaxVersion(of_title)}
        IN  \A c \in upChunkRows :
               /\ (\E d \in of_title : d.id = c.doc_id) =>
                      \E d \in newest : d.id = c.doc_id
               /\ c.upload < upProc["h1"].upload =>
                      ~\E d \in upDocs : d.is_active /\ d.id = c.doc_id

\* C25: no stored chunk or digest appears more than once in the list
\* hybrid_search returns.
C25_NoDuplicateResults ==
    hsPc = "returned" =>
        \A i, j \in InRange(hsOut) : i # j => hsOut[i].id # hsOut[j].id

\* C26: when chunk embedding or chunk persistence fails in an upload that ran
\* with no other upload, the table docs is as it was before the upload
\* started.
C26_FailedUploadLeavesDocs ==
    (DOMAIN upProc = Handlers /\ upProc["h2"] = IdleUpload
        /\ upProc["h1"].pc = "failed") =>
        upDocs = upProc["h1"].docs_before

\* The texts of the returned chunks, followed by the buffer chunk_text dropped
\* for having fewer than min_tokens tokens, if it dropped one.
CkPieces ==
    [i \in 1..Len(ckChunks) |-> ckChunks[i].text]
        \o (IF ckLoop.current_chunk # <<>> /\ ckLoop.current_tokens < 300
            THEN <<ckLoop.current_chunk>> ELSE <<>>)

\* The words of the first i pieces that are not carried over from the piece
\* before, ks[j] being the number of words piece j carries over.
RECURSIVE CkPiecesFreshUpTo(_, _)
CkPiecesFreshUpTo(ks, i) ==
    IF i = 0 THEN <<>>
    ELSE CkPiecesFreshUpTo(ks, i - 1)
             \o SubSeq(CkPieces[i], ks[i] + 1, Len(CkPieces[i]))

\* C27: apart from the words a chunk carries over from the chunk before it,
\* the returned chunks followed by the dropped trailing buffer hold the
\* sentences that pass the noise filter, each whole and exactly once, in their
\* original order.
C27_NoSentenceLost ==
    ckPc = "returned" =>
        LET n == Len(CkPieces)
            sentences == SelectSeq(ckInput, LAMBDA c : c.len > 10)
            lens == {0} \cup {Len(CkPieces[i]) : i \in 1..n}
            longest == CHOOSE m \in lens : \A x \in lens : x <= m
        IN  \E ks \in [1..n -> 0..longest] :
               /\ n >= 1 => ks[1] = 0
               /\ \A i \in 1..n :
                     /\ ks[i] < Len(CkPieces[i])
                     /\ Len(CkPiecesFreshUpTo(ks, i - 1)) \in SentenceStarts(sentences)
               /\ \A i \in 2..n :
                     /\ ks[i] <= Len(CkPieces[i - 1])
                     /\ SubSeq(CkPieces[i], 1, ks[i]) =
                            SubSeq(CkPieces[i - 1],
                                   Len(CkPieces[i - 1]) - ks[i] + 1,
                                   Len(CkPieces[i - 1]))
               /\ CkPiecesFreshUpTo(ks, n) = SentenceWords(sentences)

\* Three sentences, one of them under the noise filter's length: the first
\* closes into a chunk, the third is in the buffer that is dropped.
C27_Witness ==
    /\ ckPc = "returned"
    /\ Len(ckInput) = 3
    /\ ckInput[2].len = 9
    /\ Len(ckChunks) = 1
    /\ ckChunks[1].text = <<450, 450>>
    /\ ckLoop.current_chunk = <<60>>
    /\ Len(CkPieces) = 2

\* The texts of the asking user's messages among the rows get_recent_messages
\* returned to the last process_question, newest first.
QaOwnNewestFirst ==
    LET own == SelectSeq(qaOp.recent_messages,
                         LAMBDA msg : msg.sender_id = qaOp.user_id)
    IN  [i \in 1..Len(own) |-> own[i].text]

\* C28: when process_question is given a chat_id, the chat lines merged into
\* the retrieval query are the (up to) three of the asking user's messages
\* among the chat's recent messages that have the latest created_at, in one
\* order or another.
C28_MostRecentLines ==
    (qaOp.op = "process_question" /\ qaOp.chat_id # NULL
        /\ QaOwnNewestFirst # <<>>) =>
        LET k == IF Len(QaOwnNewestFirst) < 3 THEN Len(QaOwnNewestFirst) ELSE 3
        IN  \E order \in [1..k -> 1..k] :
               /\ \A i, j \in 1..k : i # j => order[i] # order[j]
               /\ QaQuery =
                      qaOp.question
                          \o <<" ", "C", "o", "n", "t", "e", "x", "t", ":", " ">>
                          \o QaSpaceJoined([i \in 1..k |->
                                               QaOwnNewestFirst[order[i]]])

\* C30: the answer process_question returns, the appended sources line
\* included, has at most max_answer_length characters.
C30_AnswerLength ==
    (qaOp.op = "process_question" /\ ~qaOp.raised) =>
        Len(qaOp.answer) <= 500

\* An answer of 483 characters that its sources line took past 500: it is cut
\* inside the sources line, to 496 characters.
C30_Witness ==
    /\ qaOp.op = "process_question" /\ ~qaOp.raised
    /\ qaOp.sources # <<>>
    /\ Len(qaOp.answer) = 496
    /\ SubSeq(qaOp.answer, 484, 496) =
           <<"\n", "\n", "S", "o", "u", "r", "c", "e", "s", ":", ".", ".", ".">>

\* The text holds "@bot", the bot's user name after an at sign.
BtMentionsBot(text) ==
    \E i \in 1..(Len(text) - 1) : text[i] = "@" /\ text[i + 1] = "bot"

\* The last message handled was a text message in a group or supergroup, and
\* the store took its row.
BtGroupMessage ==
    /\ btOp.op = "handle_message"
    /\ btOp.chat_type \in {"group", "supergroup"}
    /\ btOp.text # <<>>
    /\ btOp.fault # "store"

\* C29: for a message in a group or supergroup, handle_message stores the
\* message with kept = should_keep_message(text), goes on to the permission
\* check only if the message mentions the bot, and sends no reply for a
\* message that does not mention the bot.
C29_GroupMessages ==
    BtGroupMessage =>
        /\ btOp.stored = <<[chat_id |-> btOp.chat_id, sender_id |-> btOp.user_id,
                            text |-> btOp.text,
                            kept |-> should_keep_message(btOp.text)]>>
        /\ btOp.permission_checked => BtMentionsBot(btOp.text)
        /\ ~BtMentionsBot(btOp.text) => btOp.replies = <<>>

=============================================================================
